---- MODULE Spec2Model ----
(***************************************************************************)
(* A model of the agent substrate of nirav-kakadiya/agent:                 *)
(*   src/agents/analytics/index.ts      AnalyticsAgent and TenantManager   *)
(*   src/agents/brand-manager/index.ts  BrandManagerAgent                  *)
(* The Memory store, the Executor and createMessage are imported by these  *)
(* files but are not part of them; they are modelled after spec.md         *)
(* (sections 3, 4.1 and 4.3).                                              *)
(*                                                                         *)
(* JavaScript values are modelled as follows.                              *)
(*   - a string that the code only copies is a TLA+ string;                *)
(*   - a string that the code computes on (a tenant name, a slug) is a     *)
(*     sequence of one-character strings;                                  *)
(*   - an object is a function from property names to values, a property   *)
(*     that is not set is a name outside its DOMAIN;                       *)
(*   - an object whose property order is observed (tenant.platforms, a     *)
(*     Map) is a sequence of <<key, value>> pairs with distinct keys;      *)
(*   - a value that may be undefined where the property itself exists is   *)
(*     a sequence of length at most one (None, Some(v)).                   *)
(* Every await of the code is a point where other calls may run: a call    *)
(* in flight is a record of `calls', its pc names the promise it waits for.*)
(***************************************************************************)
EXTENDS Integers, Sequences, FiniteSets, TLC

(***************************************************************************)
(* Bounds of the model.                                                    *)
(***************************************************************************)
\* Date.now() takes the values 0..MaxTime.
MaxTime == 1
\* Calls (create, update, delete, a restart, a client's write) issued in one
\* behaviour.
MaxCalls == 3
\* Registry calls that may be in flight at once.
MaxInFlight == 2
\* Length of the tenant names enumerated for create.
MaxNameLen == 3
\* Task messages handed to the agents in one behaviour.
MaxTasks == 2

(***************************************************************************)
(* Generic helpers for the JavaScript values.                              *)
(***************************************************************************)
None == << >>
Some(v) == << v >>

\* The object with no property.
EmptyObj == [k \in {} |-> k]

Has(o, k) == k \in DOMAIN o

\* { ...a, ...b }
Spread(a, b) ==
  [k \in (DOMAIN a) \cup (DOMAIN b) |-> IF k \in DOMAIN b THEN b[k] ELSE a[k]]

\* o?.k for an object o that may itself be missing (then the empty object)
Prop(o, k) == IF Has(o, k) THEN o[k] ELSE EmptyObj

SeqRange(s) == { s[i] : i \in 1..Len(s) }

\* An insertion-ordered map (a JavaScript Map, or the own properties of an
\* object): a sequence of <<key, value>> with distinct keys.
MapKeys(m) == { m[i][1] : i \in 1..Len(m) }
MapHas(m, k) == k \in MapKeys(m)
MapIndex(m, k) == CHOOSE i \in 1..Len(m) : m[i][1] = k
MapGet(m, k) == m[MapIndex(m, k)][2]
\* Map.set: an existing key keeps its place, a new key goes last.
MapSet(m, k, v) ==
  IF MapHas(m, k)
    THEN [m EXCEPT ![MapIndex(m, k)] = <<k, v>>]
    ELSE Append(m, <<k, v>>)
\* Map.delete
MapDelete(m, k) == SelectSeq(m, LAMBDA e : e[1] # k)

RECURSIVE SpreadMap(_, _)
\* { ...a, ...b } for objects whose property order is observed.
SpreadMap(a, b) ==
  IF b = << >> THEN a
  ELSE SpreadMap(MapSet(a, Head(b)[1], Head(b)[2]), Tail(b))

(***************************************************************************)
(* Strings the code computes on: tenant names and slugs.                   *)
(***************************************************************************)
\* The characters of the model: the upper-case letters A, B and Z, the
\* lower-case letters and the digit below; every other character (" ", "&",
\* "-") is outside [a-z0-9] and has no other case.
LowerChars == {"a", "b", "c", "e", "m", "y", "z"}
DigitChars == {"1"}

\* String.prototype.toLowerCase, one character
LowerChar(c) ==
  CASE c = "A" -> "a"
    [] c = "B" -> "b"
    [] c = "Z" -> "z"
    [] OTHER -> c

toLowerCase(s) == [i \in 1..Len(s) |-> LowerChar(s[i])]

\* the character class [a-z0-9]
IsAlnum(c) == c \in LowerChars \cup DigitChars

RECURSIVE SkipRun(_)
\* the rest of s after the longest prefix matching [^a-z0-9]*
SkipRun(s) ==
  IF s = << >> \/ IsAlnum(Head(s)) THEN s ELSE SkipRun(Tail(s))

RECURSIVE ReplaceEach(_)
\* A variant of ReplaceRuns, s.replace(/[^a-z0-9]/g, "-"): every character
\* outside the class becomes a "-".
ReplaceEach(s) ==
  IF s = << >> THEN << >>
  ELSE IF IsAlnum(Head(s)) THEN << Head(s) >> \o ReplaceEach(Tail(s))
  ELSE << "-" >> \o ReplaceEach(Tail(s))

RECURSIVE ReplaceRuns(_)
\* s.replace(/[^a-z0-9]+/g, "-"): every match, found left to right and taken as
\* long as possible, becomes one "-"
ReplaceRuns(s) ==
  IF s = << >> THEN << >>
  ELSE IF IsAlnum(Head(s)) THEN << Head(s) >> \o ReplaceRuns(Tail(s))
  ELSE << "-" >> \o ReplaceRuns(SkipRun(Tail(s)))

\* config.slug || config.name.toLowerCase().replace(/[^a-z0-9]+/g, "-")
Slug(config) ==
  IF Has(config, "slug") /\ config.slug # << >>
    THEN config.slug
    ELSE ReplaceRuns(toLowerCase(config.name))

(***************************************************************************)
(* TenantConfig and the record create builds from a partial config.        *)
(***************************************************************************)
\* `o?.k || d' for a string property: an unset or empty string gives d
OrString(o, k, d) == IF Has(o, k) /\ o[k] # "" THEN o[k] ELSE d

\* `o?.k || d' for an array or object property: every array is truthy
OrObject(o, k, d) == IF Has(o, k) THEN o[k] ELSE d

\* `o?.k ?? d'
Coalesce(o, k, d) == IF Has(o, k) THEN o[k] ELSE d

\* `o?.k' where the result may be undefined
Optional(o, k) == IF Has(o, k) THEN Some(o[k]) ELSE None

\* `tenant_${Date.now()}_${Math.random().toString(36).slice(2, 6)}': the clock
\* reading and the random suffix
TenantId(t, rnd) == << "tenant", t, rnd >>

BrandOf(config) ==
  LET b == Prop(config, "brand")
  IN  [ voice      |-> OrString(b, "voice", "professional yet approachable"),
        tone       |-> OrString(b, "tone", "authoritative but friendly"),
        audience   |-> OrString(b, "audience", "general"),
        industry   |-> OrString(b, "industry", "technology"),
        keywords   |-> OrObject(b, "keywords", << >>),
        avoidWords |-> OrObject(b, "avoidWords", << >>) ]

\* A variant of SettingsOf: no platform when none is given.
SettingsOfNoPlatform(config) ==
  LET s == Prop(config, "settings")
  IN  [ defaultType  |-> OrString(s, "defaultType", "blog+social"),
        defaultModel |-> Optional(s, "defaultModel"),
        autoPublish  |-> Coalesce(s, "autoPublish", FALSE),
        platforms    |-> OrObject(s, "platforms", << >>) ]

SettingsOf(config) ==
  LET s == Prop(config, "settings")
  IN  [ defaultType  |-> OrString(s, "defaultType", "blog+social"),
        defaultModel |-> Optional(s, "defaultModel"),
        autoPublish  |-> Coalesce(s, "autoPublish", FALSE),
        platforms    |-> OrObject(s, "platforms", << "local-file" >>) ]

\* the object literal of create, lines 358-379
NewTenant(id, config, t) ==
  [ id        |-> id,
    name      |-> config.name,
    slug      |-> Slug(config),
    brand     |-> BrandOf(config),
    platforms |-> OrObject(config, "platforms", << >>),
    settings  |-> SettingsOf(config),
    createdAt |-> t,
    updatedAt |-> t ]

\* update, lines 401-404: the merges made before the executor is rebuilt
UpdateBefore(tenant, updates) ==
  LET t1 == IF Has(updates, "name") /\ updates.name # << >>
              THEN [tenant EXCEPT !.name = updates.name] ELSE tenant
      t2 == IF Has(updates, "brand")
              THEN [t1 EXCEPT !.brand = Spread(t1.brand, updates.brand)] ELSE t1
  IN  IF Has(updates, "platforms")
        THEN [t2 EXCEPT !.platforms = SpreadMap(t2.platforms, updates.platforms)]
        ELSE t2

\* update, lines 408-409: the merges made after it
UpdateAfter(tenant, updates, t) ==
  LET t1 == IF Has(updates, "settings")
              THEN [tenant EXCEPT !.settings = Spread(tenant.settings, updates.settings)]
              ELSE tenant
  IN  [t1 EXCEPT !.updatedAt = t]

(***************************************************************************)
(* The manifest tenants.json: JSON.stringify leaves out a property whose   *)
(* value is undefined, JSON.parse gives back what was written.             *)
(***************************************************************************)
JsonSettings(s) ==
  [k \in {x \in DOMAIN s : ~(x = "defaultModel" /\ s[x] = None)} |-> s[k]]

JsonTenant(t) == [t EXCEPT !.settings = JsonSettings(t.settings)]

\* JSON.stringify(Array.from(this.tenants.values()), null, 2) for the array of
\* tenant objects `ts'
Stringify(ts) == [kind |-> "json", tenants |-> [i \in 1..Len(ts) |-> JsonTenant(ts[i])]]

\* No file tenants.json (or one readFile cannot read: it rejects alike), and a
\* file that JSON.parse rejects.
Missing == [kind |-> "missing"]
Unparseable == [kind |-> "garbage"]

\* A property read on a parsed object: undefined when the property is not there.
ReadSettings(s) ==
  [ defaultType  |-> s.defaultType,
    defaultModel |-> IF Has(s, "defaultModel") THEN s.defaultModel ELSE None,
    autoPublish  |-> s.autoPublish,
    platforms    |-> s.platforms ]

\* A tenant object as its readers see it.
ReadTenant(t) == [t EXCEPT !.settings = ReadSettings(t.settings)]

(***************************************************************************)
(* The Memory store (core/memory, section 4.3) and the Executor            *)
(* (core/executor, glossary): one object per tenant.  A Memory holds its   *)
(* entries in the object and persists them in its backing location; init   *)
(* reads the location.  Entries are <<key, entry>> in insertion order.     *)
(***************************************************************************)
\* a key: a fixed prefix followed by a computed string
Key(prefix, rest) == << prefix, rest >>

\* new Memory(dir)
MemoryNew(dir) == [dir |-> dir, entries |-> << >>]

\* init(): what the backing location holds, nothing when it is new
MemoryInit(mem, disk) ==
  [mem EXCEPT !.entries = IF mem.dir \in DOMAIN disk THEN disk[mem.dir] ELSE << >>]

\* The time of the write (updatedAt) is left out: no operation reads it.
Entry(value, agent, tags) == [value |-> value, agent |-> agent, tags |-> tags]

\* set(key, value, agent, tags): the object after the write
MemorySet(mem, key, value, agent, tags) ==
  [mem EXCEPT !.entries = MapSet(mem.entries, key, Entry(value, agent, tags))]

\* the backing locations after `mem' persisted its entries
Persist(disk, mem) ==
  [d \in (DOMAIN disk) \cup {mem.dir} |-> IF d = mem.dir THEN mem.entries ELSE disk[d]]

\* get(key): Some(value), or None for a key that is not there
MemoryGet(mem, key) ==
  IF MapHas(mem.entries, key) THEN Some(MapGet(mem.entries, key).value) ELSE None

RECURSIVE SetCredentials(_, _)
\* lines 342-346: setCredential(key, value) for every key of every platform, in
\* the order of the platforms; a later value of a key replaces an earlier one
SetCredentials(exec, platforms) ==
  IF platforms = << >> THEN exec
  ELSE SetCredentials(Spread(exec, Head(platforms)[2]), Tail(platforms))

\* new Executor()
ExecutorNew == EmptyObj

\* A variant of MemDir: one directory for the Memory of every tenant.
MemDirShared(id) == << "data", "memory" >>

\* join(this.dataDir, tenant.id, "memory")
MemDir(id) == << "data", id, "memory" >>

\* join(this.dataDir, tenantId, "output")
OutputDir(id) == << "data", id, "output" >>

(***************************************************************************)
(* The state.                                                              *)
(***************************************************************************)
VARIABLES
  now,        \* the reading of Date.now()
  manifest,   \* the file <dataDir>/tenants.json
  stores,     \* the backing location of every Memory: directory -> entries
  outputDirs, \* the output directories made
  phase,      \* the TenantManager: "new", "loading" (init runs), "ready"
  tenants,    \* this.tenants: <<id, tenant object>> in insertion order
  memories,   \* this.memories: id -> Memory object
  executors,  \* this.executors: id -> the credentials of the tenant's Executor
  objs,       \* the tenant objects: reference -> TenantConfig
  mems,       \* the Memory objects: reference -> [dir, entries]
  calls,      \* the calls in flight, one per slot
  ret,        \* what the call that returned in the last step returned
  started,    \* calls issued so far
  issued,     \* the ids create has generated
  overlap,    \* a call was issued while another was in flight
  failed,     \* a call threw, or a storage failure was caught
  prev,       \* what the TenantManager before the last restart held
  held,       \* the Memory an agent of a tenant was constructed with: the tenant's
              \* id and the reference getMemory(id) gave
  setLog,     \* the keys that agent has set, in the order of its writes
  memory,     \* the Memory the two agents were constructed with: its entries
  defaultLearnings, \* the array DEFAULT_PROFILE.learnings of the brand-manager
  tasks,      \* the handle calls in flight, one per slot
  reply,      \* what the handle call that returned in the last step returned
  handled,    \* task messages handed to the agents so far
  created,    \* envelopes createMessage has made for the agents
  tracked,    \* the inputs of the track tasks so far and the clock reading of
              \* each, in the order the agent took them
  wrote       \* the profiles the set-brand tasks wrote so far and the brand of
              \* each, in the order of the writes

\* what belongs to the agent of a tenant; no step of the registry changes it
clientVars == << held, setLog >>
registryVars == << manifest, stores, outputDirs, phase, tenants, memories, executors,
                   objs, mems, calls, ret, started, issued, overlap, failed, prev,
                   clientVars >>
\* what the tasks so far were; no step reads it
taskVars == << tracked, wrote >>
agentVars == << memory, defaultLearnings, tasks, reply, handled, created, taskVars >>
vars == << now, registryVars, agentVars >>

Slots == 1..MaxInFlight

\* functions with a growing domain
FnSet(f, k, v) == [x \in (DOMAIN f) \cup {k} |-> IF x = k THEN v ELSE f[x]]
FnDelete(f, k) == [x \in (DOMAIN f) \ {k} |-> f[x]]
Restrict(f, S) == [x \in (DOMAIN f) \cap S |-> f[x]]

\* a reference for a new object: the least one not in use
Alloc(heap) == CHOOSE r \in 1..(Cardinality(DOMAIN heap) + 1) :
                 /\ r \notin DOMAIN heap
                 /\ \A q \in 1..(r - 1) : q \in DOMAIN heap

NoCall == [op |-> "none"]
NoRet == [op |-> "none"]
NoTask == [op |-> "none"]
NoReply == [op |-> "none"]
\* no agent of a tenant yet
NoHeld == [id |-> << >>, mem |-> 0]
\* the directory of the Memory the agents are given
AgentsDir == << "data", "memory" >>
InFlight == { s \in Slots : calls[s].op # "none" }
Idle == InFlight = {}
FreeSlot == CHOOSE s \in Slots : s \notin InFlight /\ \A q \in 1..(s - 1) : q \in InFlight

\* the objects a state still refers to
LiveObjs(tn, cs) ==
  { tn[i][2] : i \in 1..Len(tn) } \cup { cs[s].obj : s \in { q \in Slots : cs[q].op # "none" } }
LiveMems(mm, cs) ==
  { mm[id] : id \in DOMAIN mm } \cup { cs[s].mem : s \in { q \in Slots : cs[q].op # "none" } }
    \cup { held.mem }

\* The next values of the TenantManager's fields, of the two heaps (an object
\* nothing refers to is dropped) and of the calls in flight.
Commit(tn, mm, ex, ob, ms, cs) ==
  /\ tenants' = tn
  /\ memories' = mm
  /\ executors' = ex
  /\ calls' = cs
  /\ objs' = Restrict(ob, LiveObjs(tn, cs))
  /\ mems' = Restrict(ms, LiveMems(mm, cs))

\* The bookkeeping of a step: what it returned, whether it is a new call,
\* whether something failed in it.
Note(r, call, failure) ==
  /\ ret' = r
  /\ started' = IF call THEN started + 1 ELSE started
  /\ overlap' = (overlap \/ (call /\ ~Idle))
  /\ failed' = (failed \/ failure)

\* getMemory, getExecutor, getOutputDir, lines 440-452: Some(what is returned),
\* None for undefined.  A Memory is returned by its reference, an Executor by
\* the credentials it holds.
getMemory(tenantId) ==
  IF tenantId \in DOMAIN memories THEN Some(memories[tenantId]) ELSE None
getExecutor(tenantId) ==
  IF tenantId \in DOMAIN executors THEN Some(executors[tenantId]) ELSE None
getOutputDir(tenantId) == Some(OutputDir(tenantId))

\* What the accessors of the TenantManager show: list(), getExecutor(id) and the
\* entries of getMemory(id) for every id; and what the backing locations hold.
View ==
  [ tenants   |-> [i \in 1..Len(tenants) |-> ReadTenant(objs[tenants[i][2]])],
    executors |-> executors,
    entries   |-> [id \in DOMAIN memories |-> mems[memories[id]].entries],
    disk      |-> stores ]

NoView ==
  [ tenants |-> << >>, executors |-> EmptyObj, entries |-> EmptyObj, disk |-> EmptyObj ]

\* a call in flight
Call(op, pc, id, obj, mem, input) ==
  [ op |-> op, pc |-> pc, id |-> id, obj |-> obj, mem |-> mem, input |-> input,
    data |-> Missing, todo |-> << >>, pre |-> View ]

\* saveTenants, line 329: the text handed to writeFile, for this.tenants `tn'
SaveTenants(tn, ob) == Stringify([i \in 1..Len(tn) |-> ob[tn[i][2]]])

Init ==
  /\ now = 0
  /\ manifest \in {Missing, Unparseable}
  /\ stores = EmptyObj
  /\ outputDirs = {}
  /\ phase = "new"
  /\ tenants = << >>
  /\ memories = EmptyObj
  /\ executors = EmptyObj
  /\ objs = EmptyObj
  /\ mems = EmptyObj
  /\ calls = [s \in Slots |-> NoCall]
  /\ ret = NoRet
  /\ started = 0
  /\ issued = {}
  /\ overlap = FALSE
  /\ failed = FALSE
  /\ prev = NoView
  /\ held = NoHeld
  /\ setLog = << >>
  /\ memory = MemoryNew(AgentsDir)
  /\ defaultLearnings = << >>
  /\ tasks = [s \in Slots |-> NoTask]
  /\ reply = NoReply
  /\ handled = 0
  /\ created = 0
  /\ tracked = << >>
  /\ wrote = << >>

\* time passes
Tick ==
  /\ now < MaxTime
  /\ now' = now + 1
  /\ ret' = NoRet
  /\ reply' = NoReply
  /\ UNCHANGED << memory, defaultLearnings, tasks, handled, created, taskVars, manifest, stores, outputDirs, phase, tenants, memories, executors,
                  objs, mems, calls, started, issued, overlap, failed, prev, clientVars >>

(***************************************************************************)
(* The inputs of the registry calls.                                       *)
(***************************************************************************)
\* The suffixes Math.random() gives are numbered.  A create draws one that an
\* earlier create drew at the same clock reading, or a new one; the new ones
\* are taken in order (which new suffix it is makes no difference).
SuffixChoices == { r \in 1..MaxCalls : r = 1 \/ TenantId(now, r - 1) \in issued }
\* An id no create gives.
NoId == TenantId(0, 0)
\* The ids update, delete and the clients are called with: those of the tenants
\* registered, and one that is not (every id without a record takes the same
\* path through tenants.get and tenants.delete).
CallIds == MapKeys(tenants) \cup { NoId }

\* The partial configs given to create.
RegConfigs ==
  { [ name |-> << "A", "c", "m", "e" >> ],
    [ name      |-> << "B", " ", "&", "b" >>,
      brand     |-> [ voice |-> "casual", keywords |-> << "ai" >> ],
      platforms |-> << << "twitter", [ apiKey |-> "T1", secret |-> "S1" ] >> >>,
      settings  |-> [ defaultModel |-> "m1" ] ] }

\* The partial updates given to update.
RegUpdates ==
  { [ name     |-> << "Z", "e" >>,
      slug     |-> << "z", "e" >>,
      brand    |-> [ tone |-> "playful" ],
      settings |-> [ autoPublish |-> TRUE ] ],
    [ platforms |-> << << "wordpress", [ apiKey |-> "W1" ] >>,
                       << "twitter", [ apiKey |-> "T2" ] >> >> ] }

\* The inputs of the calls that overlap in Spec.
OverlapConfigs ==
  { [ name      |-> << "A", "c", "m", "e" >>,
      platforms |-> << << "twitter", [ apiKey |-> "T1" ] >> >> ] }

OverlapUpdates ==
  { [ name |-> << "Z", "e" >> ],
    [ platforms |-> << << "wordpress", [ apiKey |-> "W1" ] >> >> ] }

\* The partial configs of CreateSpec: every name of at most MaxNameLen
\* characters, without a slug, with an empty one and with one that is not in
\* the derived form; and, for one name, every choice of leaving out, giving
\* empty or giving a value for the fields of brand, and of settings.
NameChars == { "A", "b", "1", " ", "&", "-" }
Names == UNION { [1..k -> NameChars] : k \in 1..MaxNameLen }
GivenSlugs == { << >>, << "M", "y", " ", "1" >> }
GivenStrings(v) == { None, Some(""), Some(v) }
GivenLists(v) == { None, Some(<< >>), Some(<< v >>) }

\* the object with the properties of `fields' that are given
Partial(fields) ==
  [f \in { g \in DOMAIN fields : fields[g] # None } |-> fields[f][1]]

GivenBrands ==
  { Partial([ voice |-> v, tone |-> t, audience |-> a, industry |-> i,
              keywords |-> k, avoidWords |-> w ]) :
      v \in GivenStrings("casual"), t \in GivenStrings("playful"),
      a \in GivenStrings("developers"), i \in GivenStrings("finance"),
      k \in GivenLists("ai"), w \in GivenLists("cheap") }

GivenSettings ==
  { Partial([ defaultType |-> d, defaultModel |-> m, autoPublish |-> p, platforms |-> l ]) :
      d \in GivenStrings("blog"), m \in { None, Some("m1") },
      p \in { None, Some(FALSE), Some(TRUE) }, l \in GivenLists("twitter") }

CreateConfigs ==
  { [ name |-> n ] : n \in Names }
    \cup { [ name |-> n, slug |-> g ] : n \in Names, g \in GivenSlugs }
    \cup { [ name |-> << "A", "b" >>, brand |-> b ] : b \in GivenBrands }
    \cup { [ name |-> << "A", "b" >>, settings |-> st ] : st \in GivenSettings }

\* The values clients write under the key "note".
NoteValues == { "n1" }
NoteKey == Key("note", << >>)

\* what a call returned: `value' is Some(tenant) or None for create and update,
\* a boolean for delete; `pre' is the View when the call was issued
Ret(op, id, input, value, threw, pre) ==
  [ op |-> op, id |-> id, input |-> input, value |-> value, threw |-> threw, pre |-> pre ]

(***************************************************************************)
(* The calls on the TenantManager, up to their first await.                *)
(***************************************************************************)
CanIssue ==
  /\ phase = "ready"
  /\ started < MaxCalls
  /\ Cardinality(InFlight) < MaxInFlight

\* init, lines 309-318: mkdir, then loadTenants up to readFile
init ==
  /\ phase = "new"
  /\ Idle
  /\ phase' = "loading"
  /\ Commit(tenants, memories, executors, objs, mems,
            [calls EXCEPT ![FreeSlot] = Call("init", "readFile", NoId, 0, 0, EmptyObj)])
  /\ Note(NoRet, FALSE, FALSE)
  /\ UNCHANGED << agentVars, clientVars, issued, now, manifest, stores, outputDirs, prev >>

\* A new TenantManager over the same data directory replaces the one in use.
restart ==
  /\ CanIssue
  /\ Idle
  /\ phase' = "new"
  /\ prev' = View
  /\ Commit(<< >>, EmptyObj, EmptyObj, objs, mems, calls)
  /\ Note(NoRet, TRUE, FALSE)
  /\ UNCHANGED << agentVars, clientVars, issued, now, manifest, stores, outputDirs >>

\* create, lines 354-382, up to the await of mem.init() in initTenantResources
create(config, rnd) ==
  /\ CanIssue
  /\ LET id == TenantId(now, rnd)
         o == Alloc(objs)
         m == Alloc(mems)
     IN  /\ Commit(MapSet(tenants, id, o), memories, executors,
                   FnSet(objs, o, NewTenant(id, config, now)),
                   FnSet(mems, m, MemoryNew(MemDir(id))),
                   [calls EXCEPT ![FreeSlot] = Call("create", "mem.init", id, o, m, config)])
         /\ Note(NoRet, TRUE, FALSE)
         /\ issued' = issued \cup { id }
  /\ UNCHANGED << agentVars, clientVars, now, manifest, stores, outputDirs, phase, prev >>

\* update, lines 397-411, up to its first await: mem.init() when platforms are
\* given, writeFile otherwise; an unknown id returns null at once
update(id, updates) ==
  /\ CanIssue
  /\ IF ~MapHas(tenants, id)
       THEN /\ Commit(tenants, memories, executors, objs, mems, calls)
            /\ Note(Ret("update", id, updates, None, FALSE, View), TRUE, FALSE)
       ELSE LET o == MapGet(tenants, id)
                merged == FnSet(objs, o, UpdateBefore(objs[o], updates))
                m == Alloc(mems)
                after == FnSet(objs, o, UpdateAfter(merged[o], updates, now))
            IN  /\ IF Has(updates, "platforms")
                     THEN Commit(tenants, memories, executors, merged,
                                 FnSet(mems, m, MemoryNew(MemDir(merged[o].id))),
                                 [calls EXCEPT ![FreeSlot] =
                                    Call("update", "mem.init", id, o, m, updates)])
                     ELSE Commit(tenants, memories, executors, after, mems,
                                 [calls EXCEPT ![FreeSlot] =
                                    [Call("update", "writeFile", id, o, 0, updates)
                                       EXCEPT !.data = SaveTenants(tenants, after)]])
                /\ Note(NoRet, TRUE, FALSE)
  /\ UNCHANGED << agentVars, clientVars, issued, now, manifest, stores, outputDirs, phase, prev >>

\* A variant of delete: this.executors.delete(id) is left out.
deleteKeepsExecutor(id) ==
  /\ CanIssue
  /\ LET deleted == MapHas(tenants, id)
         tn == MapDelete(tenants, id)
         mm == FnDelete(memories, id)
     IN  IF deleted
           THEN /\ Commit(tn, mm, executors, objs, mems,
                          [calls EXCEPT ![FreeSlot] =
                             [Call("delete", "writeFile", id, 0, 0, EmptyObj)
                                EXCEPT !.data = SaveTenants(tn, objs)]])
                /\ Note(NoRet, TRUE, FALSE)
           ELSE /\ Commit(tn, mm, executors, objs, mems, calls)
                /\ Note(Ret("delete", id, EmptyObj, FALSE, FALSE, View), TRUE, FALSE)
  /\ UNCHANGED << agentVars, clientVars, issued, now, manifest, stores, outputDirs, phase, prev >>

\* delete, lines 416-421, up to the await of writeFile; with no record it
\* returns false at once
delete(id) ==
  /\ CanIssue
  /\ LET deleted == MapHas(tenants, id)
         tn == MapDelete(tenants, id)
         mm == FnDelete(memories, id)
         ex == FnDelete(executors, id)
     IN  IF deleted
           THEN /\ Commit(tn, mm, ex, objs, mems,
                          [calls EXCEPT ![FreeSlot] =
                             [Call("delete", "writeFile", id, 0, 0, EmptyObj)
                                EXCEPT !.data = SaveTenants(tn, objs)]])
                /\ Note(NoRet, TRUE, FALSE)
           ELSE /\ Commit(tn, mm, ex, objs, mems, calls)
                /\ Note(Ret("delete", id, EmptyObj, FALSE, FALSE, View), TRUE, FALSE)
  /\ UNCHANGED << agentVars, clientVars, issued, now, manifest, stores, outputDirs, phase, prev >>

\* A client of tenant `id' writes through getMemory(id): set(key, value, ...).
write(id, value) ==
  /\ CanIssue
  /\ id \in DOMAIN memories
  /\ LET m == memories[id]
         mem == MemorySet(mems[m], NoteKey, value, "client", {"note"})
     IN  /\ stores' = Persist(stores, mem)
         /\ Commit(tenants, memories, executors, objs, FnSet(mems, m, mem), calls)
  /\ Note(Ret("write", id, value, None, FALSE, View), TRUE, FALSE)
  /\ UNCHANGED << agentVars, clientVars, issued, now, manifest, outputDirs, phase, prev >>

(***************************************************************************)
(* The continuations: what a call does when the promise it awaits settles. *)
(***************************************************************************)
\* loadTenants, lines 320-323: the loop over the parsed records, up to the
\* await of mem.init() for the next one; after the last one init returns
LoadNext(s, todo) ==
  IF todo = << >>
    THEN /\ phase' = "ready"
         /\ Commit(tenants, memories, executors, objs, mems, [calls EXCEPT ![s] = NoCall])
         /\ Note(Ret("init", NoId, EmptyObj, None, FALSE, calls[s].pre), FALSE, FALSE)
    ELSE LET t == Head(todo)
             o == Alloc(objs)
             m == Alloc(mems)
         IN  /\ phase' = phase
             /\ Commit(MapSet(tenants, t.id, o), memories, executors,
                       FnSet(objs, o, t),
                       FnSet(mems, m, MemoryNew(MemDir(t.id))),
                       [calls EXCEPT ![s] = [@ EXCEPT !.pc = "mem.init", !.id = t.id,
                                                      !.obj = o, !.mem = m,
                                                      !.todo = Tail(todo)]])
             /\ Note(NoRet, FALSE, FALSE)

\* A variant of readFileDone: loadTenants without its try/catch, the rejection
\* of readFile or the SyntaxError of JSON.parse reaches the caller of init.
readFileUncaught(s) ==
  /\ calls[s].op # "none"
  /\ calls[s].pc = "readFile"
  /\ IF manifest.kind = "json"
       THEN LoadNext(s, manifest.tenants)
       ELSE /\ phase' = "ready"
            /\ Commit(tenants, memories, executors, objs, mems, [calls EXCEPT ![s] = NoCall])
            /\ Note(Ret("init", NoId, EmptyObj, None, TRUE, calls[s].pre), FALSE, TRUE)
  /\ UNCHANGED << agentVars, clientVars, issued, now, manifest, stores, outputDirs, prev >>

\* loadTenants, lines 318-319 and 324: readFile settles; a missing file or a
\* text JSON.parse rejects is caught and leaves no tenant
readFileDone(s) ==
  /\ calls[s].op # "none"
  /\ calls[s].pc = "readFile"
  /\ IF manifest.kind = "json"
       THEN LoadNext(s, manifest.tenants)
       ELSE LoadNext(s, << >>)
  /\ UNCHANGED << agentVars, clientVars, issued, now, manifest, stores, outputDirs, prev >>

\* A variant of memInitDone: the new Memory is registered as it was constructed,
\* without what init() read from its backing location.
memInitSkipped(s) ==
  /\ calls[s].op # "none"
  /\ calls[s].pc = "mem.init"
  /\ LET c == calls[s]
         tenant == objs[c.obj]
         mem == mems[c.mem]
     IN  /\ stores' = stores
         /\ Commit(tenants,
                   FnSet(memories, tenant.id, c.mem),
                   FnSet(executors, tenant.id, SetCredentials(ExecutorNew, tenant.platforms)),
                   objs,
                   FnSet(mems, c.mem, mem),
                   [calls EXCEPT ![s].pc = "mkdir"])
         /\ Note(NoRet, FALSE, FALSE)
  /\ UNCHANGED << agentVars, clientVars, issued, now, manifest, outputDirs, phase, prev >>

\* initTenantResources, lines 336-350: mem.init() resolves; the Memory and a new
\* Executor with the tenant's credentials are registered, mkdir is awaited
memInitDone(s) ==
  /\ calls[s].op # "none"
  /\ calls[s].pc = "mem.init"
  /\ LET c == calls[s]
         tenant == objs[c.obj]
         mem == MemoryInit(mems[c.mem], stores)
     IN  /\ stores' = IF mem.dir \in DOMAIN stores THEN stores
                      ELSE FnSet(stores, mem.dir, << >>)
         /\ Commit(tenants,
                   FnSet(memories, tenant.id, c.mem),
                   FnSet(executors, tenant.id, SetCredentials(ExecutorNew, tenant.platforms)),
                   objs,
                   FnSet(mems, c.mem, mem),
                   [calls EXCEPT ![s].pc = "mkdir"])
         /\ Note(NoRet, FALSE, FALSE)
  /\ UNCHANGED << agentVars, clientVars, issued, now, manifest, outputDirs, phase, prev >>

\* what a call returned in whose course mem.init() rejected
StorageFailure(r) == r @@ [ error |-> "StorageError" ]

\* mem.init() rejects (a StorageError): create and update reject with it,
\* loadTenants catches it (line 324) and init returns
memInitFail(s) ==
  /\ calls[s].op # "none"
  /\ calls[s].pc = "mem.init"
  /\ LET c == calls[s]
     IN  /\ phase' = IF c.op = "init" THEN "ready" ELSE phase
         /\ Commit(tenants, memories, executors, objs, mems, [calls EXCEPT ![s] = NoCall])
         /\ Note(StorageFailure(Ret(c.op, c.id, c.input, None, c.op # "init", c.pre)),
                 FALSE, TRUE)
  /\ UNCHANGED << agentVars, clientVars, issued, now, manifest, stores, outputDirs, prev >>

\* initTenantResources returns (mkdir settled, line 350) to its caller: create
\* goes on to saveTenants (line 383), update to lines 408-411, loadTenants to
\* its next record
mkdirDone(s) ==
  /\ calls[s].op # "none"
  /\ calls[s].pc = "mkdir"
  /\ LET c == calls[s]
         after == FnSet(objs, c.obj, UpdateAfter(objs[c.obj], c.input, now))
     IN  /\ outputDirs' = outputDirs \cup { OutputDir(objs[c.obj].id) }
         /\ CASE c.op = "init" -> LoadNext(s, c.todo)
              [] c.op = "create" ->
                   /\ phase' = phase
                   /\ Commit(tenants, memories, executors, objs, mems,
                             [calls EXCEPT ![s] = [@ EXCEPT !.pc = "writeFile",
                                                   !.data = SaveTenants(tenants, objs)]])
                   /\ Note(NoRet, FALSE, FALSE)
              [] c.op = "update" ->
                   /\ phase' = phase
                   /\ Commit(tenants, memories, executors, after, mems,
                             [calls EXCEPT ![s] = [@ EXCEPT !.pc = "writeFile",
                                                   !.data = SaveTenants(tenants, after)]])
                   /\ Note(NoRet, FALSE, FALSE)
  /\ UNCHANGED << agentVars, clientVars, issued, now, manifest, stores, prev >>

\* A variant of SeedKey: the profile goes under brand:<name>.
SeedKeyByName(pc, tenant) ==
  CASE pc = "set:voice" -> Key("brand_voice", << >>)
    [] pc = "set:tone" -> Key("brand_tone", << >>)
    [] pc = "set:audience" -> Key("brand_audience", << >>)
    [] pc = "set:brand" -> Key("brand:", tenant.name)

\* The brand entries create writes, lines 387-390, in their order.
SeedKey(pc, tenant) ==
  CASE pc = "set:voice" -> Key("brand_voice", << >>)
    [] pc = "set:tone" -> Key("brand_tone", << >>)
    [] pc = "set:audience" -> Key("brand_audience", << >>)
    [] pc = "set:brand" -> Key("brand:", tenant.slug)

SeedValue(pc, tenant) ==
  CASE pc = "set:voice" -> tenant.brand.voice
    [] pc = "set:tone" -> tenant.brand.tone
    [] pc = "set:audience" -> tenant.brand.audience
    [] pc = "set:brand" -> tenant.brand

NextSeed(pc) ==
  CASE pc = "set:voice" -> "set:tone"
    [] pc = "set:tone" -> "set:audience"
    [] pc = "set:audience" -> "set:brand"
    [] pc = "set:brand" -> "return"

\* mem.set(key, value, "brand-manager", ["brand"]) of create, for the entry `pc'
\* names, on the Memory `m'; the call then awaits it
Seed(s, m, pc) ==
  LET c == calls[s]
      tenant == objs[c.obj]
      mem == MemorySet(mems[m], SeedKey(pc, tenant), SeedValue(pc, tenant),
                       "brand-manager", {"brand"})
  IN  /\ stores' = Persist(stores, mem)
      /\ Commit(tenants, memories, executors, objs, FnSet(mems, m, mem),
                [calls EXCEPT ![s] = [@ EXCEPT !.pc = pc, !.mem = m]])
      /\ Note(NoRet, FALSE, FALSE)

\* saveTenants returns: writeFile settled, line 329.  delete and update return;
\* create takes this.memories.get(id)! and writes the first brand entry, which
\* throws when the Memory is not there
writeFileDone(s) ==
  /\ calls[s].op # "none"
  /\ calls[s].pc = "writeFile"
  /\ manifest' = calls[s].data
  /\ LET c == calls[s]
         done == [calls EXCEPT ![s] = NoCall]
     IN  CASE c.op = "delete" ->
                /\ Commit(tenants, memories, executors, objs, mems, done)
                /\ Note(Ret("delete", c.id, c.input, TRUE, FALSE, c.pre), FALSE, FALSE)
                /\ stores' = stores
           [] c.op = "update" ->
                /\ Commit(tenants, memories, executors, objs, mems, done)
                /\ Note(Ret("update", c.id, c.input, Some(ReadTenant(objs[c.obj])),
                            FALSE, c.pre), FALSE, FALSE)
                /\ stores' = stores
           [] c.op = "create" ->
                IF c.id \in DOMAIN memories
                  THEN Seed(s, memories[c.id], "set:voice")
                  ELSE /\ Commit(tenants, memories, executors, objs, mems, done)
                       /\ Note(Ret("create", c.id, c.input, None, TRUE, c.pre), FALSE, TRUE)
                       /\ stores' = stores
  /\ UNCHANGED << agentVars, clientVars, issued, now, outputDirs, phase, prev >>

\* create, lines 387-393: a mem.set settled; the next entry is written, and
\* after the last one create returns the tenant
memSetDone(s) ==
  /\ calls[s].op # "none"
  /\ calls[s].pc \in { "set:voice", "set:tone", "set:audience", "set:brand" }
  /\ LET c == calls[s]
     IN  IF NextSeed(c.pc) = "return"
           THEN /\ Commit(tenants, memories, executors, objs, mems,
                          [calls EXCEPT ![s] = NoCall])
                /\ Note(Ret("create", c.id, c.input, Some(ReadTenant(objs[c.obj])),
                            FALSE, c.pre), FALSE, FALSE)
                /\ stores' = stores
           ELSE Seed(s, c.mem, NextSeed(c.pc))
  /\ UNCHANGED << agentVars, clientVars, issued, now, manifest, outputDirs, phase, prev >>

(***************************************************************************)
(* The agent of a tenant: an agent is constructed with the Memory          *)
(* getMemory(id) gives, keeps that reference (this.memory) and writes      *)
(* through it.  getBrandGuidelines reads the tenant's Memory.              *)
(***************************************************************************)
\* What the agent sets: the brand-manager a feedback entry under a new key
\* and brand_voice, which create wrote first; the analytics agent a metrics
\* entry under a new key.
AgentSets ==
  { [ agent |-> "brand-manager", prefix |-> "feedback:", value |-> "Too formal" ],
    [ agent |-> "brand-manager", prefix |-> "brand_voice", value |-> "witty" ],
    [ agent |-> "analytics", prefix |-> "metrics:", value |-> "c1" ] }

\* the key of a set: brand_voice, or the prefix and a text no set had before
SetKey(w) ==
  IF w.prefix = "brand_voice" THEN Key("brand_voice", << >>)
  ELSE Key(w.prefix, << Len(setLog) >>)

\* sets of the agent of a tenant in one behaviour
MaxSets == 8

\* new BrandManagerAgent(llm, tenants.getMemory(id)), brand-manager lines 47-81
\* (the AnalyticsAgent likewise): the agent keeps the reference
obtain(id) ==
  /\ phase = "ready"
  /\ Idle
  /\ held = NoHeld
  /\ getMemory(id) # None
  /\ held' = [id |-> id, mem |-> getMemory(id)[1]]
  /\ ret' = NoRet
  /\ UNCHANGED << agentVars, now, manifest, stores, outputDirs, phase, tenants, memories,
                  executors, objs, mems, calls, started, issued, overlap, failed, prev,
                  setLog >>

\* this.memory.set(key, value, this.name, tags) of the agent, on the Memory
\* it was constructed with
agentSet(w) ==
  /\ phase = "ready"
  /\ Idle
  /\ held # NoHeld
  /\ Len(setLog) < MaxSets
  /\ LET mem == MemorySet(mems[held.mem], SetKey(w), w.value, w.agent, {w.prefix})
     IN  /\ stores' = Persist(stores, mem)
         /\ Commit(tenants, memories, executors, objs, FnSet(mems, held.mem, mem), calls)
  /\ setLog' = Append(setLog, SetKey(w))
  /\ Note(Ret("set", held.id, w, None, FALSE, View), FALSE, FALSE)
  /\ UNCHANGED << agentVars, issued, now, manifest, outputDirs, phase, prev, held >>

\* s.slice(-n)
Last(s, n) == IF Len(s) <= n THEN s ELSE SubSeq(s, Len(s) - n + 1, Len(s))

\* byAgent(agent): the entries the agent wrote last, in the order of the store
MemoryByAgent(mem, agent) == SelectSeq(mem.entries, LAMBDA e : e[2].agent = agent)

\* how many entries getBrandGuidelines lists, line 478
MaxListed == 10

\* getBrandGuidelines, lines 455-483: the text by its lines, the empty text
\* as no line
BrandGuidelines(tenantId) ==
  IF ~MapHas(tenants, tenantId) THEN << >>
  ELSE LET tenant == objs[MapGet(tenants, tenantId)]
           learnings == IF getMemory(tenantId) = None THEN << >>
                        ELSE MemoryByAgent(mems[getMemory(tenantId)[1]], "brand-manager")
           listed == Last(learnings, MaxListed)
       IN  << << "Brand Writing Guidelines", tenant.name >>,
              << "Voice", tenant.brand.voice >>, << "Tone", tenant.brand.tone >>,
              << "Target Audience", tenant.brand.audience >>,
              << "Industry", tenant.brand.industry >> >>
           \o (IF tenant.brand.keywords # << >>
                 THEN << << "Include keywords", tenant.brand.keywords >> >> ELSE << >>)
           \o (IF tenant.brand.avoidWords # << >>
                 THEN << << "NEVER use", tenant.brand.avoidWords >> >> ELSE << >>)
           \o (IF learnings # << >>
                 THEN << << "Learned preferences" >> >>
                      \o [i \in 1..Len(listed) |-> << "-", listed[i][1], listed[i][2].value >>]
                 ELSE << >>)

\* a call of getBrandGuidelines(tenantId)
getBrandGuidelines(tenantId) ==
  /\ phase = "ready"
  /\ Idle
  /\ ret' = Ret("getBrandGuidelines", tenantId, EmptyObj, BrandGuidelines(tenantId), FALSE, View)
  /\ UNCHANGED << agentVars, clientVars, now, manifest, stores, outputDirs, phase, tenants,
                  memories, executors, objs, mems, calls, started, issued, overlap, failed,
                  prev >>

(***************************************************************************)
(* The message envelope (core/message, section 4.1) and what the agents    *)
(* use of the Memory besides get and set.                                  *)
(***************************************************************************)
\* the id of the n-th envelope createMessage makes: a new one every time
MessageId(n) == << "msg", n >>

\* createMessage(from, to, kind, payload, correlationId), for the n-th envelope
createMessage(n, from, to, kind, payload, correlationId) ==
  [ id |-> MessageId(n), from |-> from, to |-> to, kind |-> kind,
    payload |-> payload, correlationId |-> correlationId ]

\* search(prefix): the entries whose key starts with the prefix, in their order
MemorySearch(mem, prefix) == SelectSeq(mem.entries, LAMBDA e : e[1][1] = prefix)

\* A variant of AgentReply: the envelope goes to the recipient of the task.
AgentReplyToRecipient(n, agent, message, kind, payload) ==
  createMessage(n, agent, message.to, kind, payload, message.id)

\* createMessage(this.name, message.from, kind, payload, message.id): the
\* envelope every path of both agents returns, the n-th one made
AgentReply(n, agent, message, kind, payload) ==
  createMessage(n, agent, message.from, kind, payload, message.id)

\* { success: true, output }
ResultPayload(output) == [ success |-> TRUE, output |-> output ]

(***************************************************************************)
(* AnalyticsAgent: what its handlers compute.  A ContentMetrics has its    *)
(* metrics as <<platform, stats>> in insertion order; a time is the        *)
(* reading of the clock (toISOString keeps the order of the readings).     *)
(***************************************************************************)
\* `o.k || 0' for a number
Num(o, k) == IF Has(o, k) THEN o[k] ELSE 0

RECURSIVE SumSeq(_)
SumSeq(s) == IF s = << >> THEN 0 ELSE Head(s) + SumSeq(Tail(s))

\* line 109.  The views of the model are powers of two that divide 100, for
\* which the quotient is exact.
Engagement(m) ==
  ((Num(m, "likes") + Num(m, "comments") + Num(m, "shares")) * 100) \div m.views

\* A track that takes no account of the value under its key: the
\* ContentMetrics of the task input alone.
TrackMergeAlone(stored, input, t) ==
  LET stats == Spread(Prop(input, "metrics"), [updatedAt |-> t])
      m == IF Num(stats, "views") > 0
             THEN Spread(stats, [engagement |-> Engagement(stats)]) ELSE stats
  IN  [ id        |-> input.contentId,
        title     |-> OrString(input, "title", input.contentId),
        topic     |-> OrString(input, "topic", ""),
        createdAt |-> t,
        platforms |-> << input.platform >>,
        metrics   |-> << << input.platform, m >> >>,
        tags      |-> OrObject(input, "tags", << >>) ]

\* track, lines 82-110: the ContentMetrics written for the task input, from the
\* value `stored' under its key (None when there is none), at time t
TrackMerge(stored, input, t) ==
  LET existing == IF stored # None THEN stored[1]
                  ELSE [ id        |-> input.contentId,
                         title     |-> OrString(input, "title", input.contentId),
                         topic     |-> OrString(input, "topic", ""),
                         createdAt |-> t,
                         platforms |-> << >>,
                         metrics   |-> << >>,
                         tags      |-> OrObject(input, "tags", << >>) ]
      old == IF MapHas(existing.metrics, input.platform)
               THEN MapGet(existing.metrics, input.platform) ELSE EmptyObj
      stats == Spread(Spread(old, Prop(input, "metrics")), [updatedAt |-> t])
      m == IF Num(stats, "views") > 0
             THEN Spread(stats, [engagement |-> Engagement(stats)]) ELSE stats
  IN  [existing EXCEPT
         !.metrics = MapSet(@, input.platform, m),
         !.platforms = IF input.platform \in SeqRange(@) THEN @
                       ELSE Append(@, input.platform)]

\* line 112: the tags of the entry
TrackTags(input) ==
  {"metrics", input.platform} \cup SeqRange(OrObject(input, "tags", << >>))

RECURSIVE AllStats(_)
\* the <<platform, stats>> of the entries, entry after entry
AllStats(entries) ==
  IF entries = << >> THEN << >>
  ELSE Head(entries)[2].value.metrics \o AllStats(Tail(entries))

\* the sum of `field || 0' over <<platform, stats>> pairs
Total(pairs, field) == SumSeq([i \in 1..Len(pairs) |-> Num(pairs[i][2], field)])

RECURSIVE Accumulate(_, _)
\* the Map built by adding, key after key, the views and the engagement of
\* <<key, stats>> pairs to what the Map holds for the key
Accumulate(map, pairs) ==
  IF pairs = << >> THEN map
  ELSE LET k == Head(pairs)[1]
           old == IF MapHas(map, k) THEN MapGet(map, k) ELSE [views |-> 0, engagement |-> 0]
           new == [ views      |-> old.views + Num(Head(pairs)[2], "views"),
                    engagement |-> old.engagement + Num(Head(pairs)[2], "engagement") ]
       IN  Accumulate(MapSet(map, k, new), Tail(pairs))

\* Array.prototype.sort with (a, b) => score(b) - score(a), which is stable:
\* the indices of `scores' by falling score, equal scores in their order
SortDesc(scores) ==
  LET rank(i) == Cardinality({ j \in 1..Len(scores) :
                    scores[j] > scores[i] \/ (scores[j] = scores[i] /\ j < i) }) + 1
  IN  [k \in 1..Len(scores) |-> CHOOSE i \in 1..Len(scores) : rank(i) = k]

\* getTopPlatform, lines 249-259
getTopPlatform(entries) ==
  LET views == Accumulate(<< >>, AllStats(entries))
      sorted == SortDesc([i \in 1..Len(views) |-> views[i][2].views])
  IN  IF views = << >> THEN "none" ELSE views[sorted[1]][1]

\* the milliseconds of a day, line 123
DayMs == 86400000

\* createdAt >= t - days * DayMs, for createdAt <= t, computed without the
\* product: (t - createdAt) <= days * DayMs
Since(createdAt, t, days) ==
  \/ (t - createdAt) \div DayMs < days
  \/ (t - createdAt) \div DayMs = days /\ (t - createdAt) % DayMs = 0

\* (x).toFixed(2) for x = n / d: hundredths, rounded
ToFixed2(n, d) == << "fixed2", (2 * n * 100 + d) \div (2 * d) >>

\* report, lines 121-158: the output
ReportOutput(mem, input, t) ==
  LET days == IF Has(input, "days") /\ input.days # 0 THEN input.days ELSE 30
      all == SelectSeq(MemorySearch(mem, "metrics:"),
                       LAMBDA e : Since(e[2].value.createdAt, t, days))
      stats == SelectSeq(AllStats(all),
                         LAMBDA ps : ~Has(input, "platform") \/ input.platform = ""
                                       \/ ps[1] = input.platform)
      likes == Total(stats, "likes")
      shares == Total(stats, "shares")
      comments == Total(stats, "comments")
      views == Total(stats, "views")
  IN  [ period        |-> << "Last", days, "days" >>,
        platform      |-> OrString(input, "platform", "all"),
        contentCount  |-> Len(all),
        totalViews    |-> views,
        totalLikes    |-> likes,
        totalShares   |-> shares,
        totalComments |-> comments,
        avgEngagement |-> IF views > 0 THEN ToFixed2((likes + comments + shares) * 100, views)
                          ELSE << "number", 0 >>,
        topPlatform   |-> getTopPlatform(all) ]

\* getInsights, lines 163-213: the insights
Insights(mem) ==
  LET all == MemorySearch(mem, "metrics:")
      withTopic == SelectSeq(all, LAMBDA e : e[2].value.topic # "")
      perTopic == [i \in 1..Len(withTopic) |->
                     << withTopic[i][2].value.topic,
                        [ views      |-> Total(withTopic[i][2].value.metrics, "views"),
                          engagement |-> Total(withTopic[i][2].value.metrics, "engagement") ] >>]
      topics == Accumulate(<< >>, perTopic)
      platforms == Accumulate(<< >>, AllStats(all))
      best(map) == map[SortDesc([i \in 1..Len(map) |-> map[i][2].engagement])[1]]
  IN  IF all = << >> THEN << << "No content tracked yet" >> >>
      ELSE (IF topics = << >> THEN << >>
            ELSE << << "Best performing topic", best(topics)[1], best(topics)[2].views >> >>)
           \o (IF platforms = << >> THEN << >>
               ELSE << << "Best platform", best(platforms)[1] >> >>)
           \o << << "Total content tracked", Len(all) >>, << "Tip" >> >>

\* topContent, lines 221-245: the content of the output
TopContent(mem, input) ==
  LET limit == IF Has(input, "limit") /\ input.limit # 0 THEN input.limit ELSE 5
      metric == OrString(input, "metric", "views")
      all == MemorySearch(mem, "metrics:")
      score(i) == Total(all[i][2].value.metrics, metric)
      sorted == SortDesc([i \in 1..Len(all) |-> score(i)])
      top == SubSeq(sorted, 1, IF limit < Len(all) THEN limit ELSE Len(all))
  IN  [k \in 1..Len(top) |->
         [ title     |-> all[top[k]][2].value.title,
           topic     |-> all[top[k]][2].value.topic,
           platforms |-> all[top[k]][2].value.platforms,
           score     |-> score(top[k]),
           metric    |-> metric ]]


(***************************************************************************)
(* BrandManagerAgent: what its handlers compute.  A brand name is a string *)
(* the code only copies; in a key it is the one-element sequence of it.    *)
(* The learnings of a profile are an array: either the array of            *)
(* DEFAULT_PROFILE itself (the spread of getProfile copies the reference), *)
(* or an array of the profile's own.  The Memory is taken to hand out the  *)
(* value it was given, not a copy of it.                                   *)
(***************************************************************************)
SharedLearnings == [ shared |-> TRUE, items |-> << >> ]
OwnLearnings(items) == [ shared |-> FALSE, items |-> items ]
\* the elements of a learnings array, DEFAULT_PROFILE.learnings holding `dl'
Items(learnings, dl) == IF learnings.shared THEN dl ELSE learnings.items

\* DEFAULT_PROFILE, lines 26-41
DEFAULT_PROFILE ==
  [ name        |-> "default",
    voice       |-> "professional yet approachable",
    tone        |-> "authoritative but friendly",
    audience    |-> "general",
    industry    |-> "technology",
    keywords    |-> << >>,
    avoidWords  |-> << >>,
    examples    |-> << >>,
    socialStyle |-> [ twitter   |-> "engaging threads with hooks and data",
                      linkedin  |-> "thought leadership with insights",
                      instagram |-> "visual-friendly with emojis" ],
    learnings   |-> SharedLearnings ]

BrandKey(name) == Key("brand:", << name >>)

\* getProfile, lines 263-267
getProfile(mem, name) ==
  LET stored == MemoryGet(mem, BrandKey(name))
  IN  IF stored # None THEN Spread(DEFAULT_PROFILE, stored[1])
      ELSE Spread(DEFAULT_PROFILE, [name |-> name])

\* a profile as a reader of an envelope sees it: the learnings by their elements
ReadProfile(profile, dl) == [profile EXCEPT !.learnings = Items(@, dl)]

RECURSIVE Dedupe(_)
\* [...new Set(s)]: the first occurrence of every element
Dedupe(s) ==
  IF s = << >> THEN << >>
  ELSE LET rest == Dedupe(SubSeq(s, 1, Len(s) - 1))
       IN  IF s[Len(s)] \in SeqRange(rest) THEN rest ELSE Append(rest, s[Len(s)])


\* the examples a profile keeps, line 125, and the learnings, line 192
MaxExamples == 10
MaxLearnings == 20

\* buildGuidelines, lines 270-298: the lines of the text, by label and content
buildGuidelines(profile, dl) ==
  << << "Voice", profile.voice >>, << "Tone", profile.tone >>,
     << "Target Audience", profile.audience >>, << "Industry", profile.industry >> >>
  \o (IF profile.keywords # << >> THEN << << "keywords", profile.keywords >> >> ELSE << >>)
  \o (IF profile.avoidWords # << >> THEN << << "avoid", profile.avoidWords >> >> ELSE << >>)
  \o (IF profile.examples # << >> THEN << << "examples", profile.examples >> >> ELSE << >>)
  \o (IF Items(profile.learnings, dl) # << >>
        THEN << << "learnings", Items(profile.learnings, dl) >> >> ELSE << >>)
  \o << << "Twitter", profile.socialStyle.twitter >>,
        << "LinkedIn", profile.socialStyle.linkedin >>,
        << "Instagram", profile.socialStyle.instagram >> >>

\* setBrand, line 115
SetBrandName(input) == OrString(input, "name", OrString(input, "brandName", "default"))

\* setBrand, lines 116-127: the merged profile
SetBrandMerge(mem, input, dl) ==
  LET existing == getProfile(mem, SetBrandName(input))
  IN  Spread(Spread(existing, input),
        [ socialStyle |-> Spread(existing.socialStyle, Prop(input, "socialStyle")),
          keywords    |-> Dedupe(existing.keywords \o OrObject(input, "keywords", << >>)),
          avoidWords  |-> Dedupe(existing.avoidWords \o OrObject(input, "avoidWords", << >>)),
          examples    |-> Last(existing.examples \o OrObject(input, "examples", << >>),
                               MaxExamples),
          learnings   |-> OwnLearnings(Items(existing.learnings, dl)
                                         \o OrObject(input, "learnings", << >>)) ])

\* The contents the LLM answers with in the model: a text without braces, a
\* text in braces that is not JSON, the JSON of an object with the fields asked
\* for, and the JSON of an object without them.
PlainContent == "Use a lighter tone."
BracedContent == "{keep it short}"
RuleContent == "{\"learning\":\"Use contractions\",\"applies_to\":\"social\",\"priority\":\"high\"}"
EmptyObjectContent == "{}"
LLMContents == { PlainContent, BracedContent, RuleContent, EmptyObjectContent }

\* content.match(/\{[\s\S]*\}/): the text from the first "{" to the last "}"
JsonMatch(content) == IF content = PlainContent THEN None ELSE Some(content)

\* JSON.parse: the value, or a SyntaxError
JsonParse(text) ==
  CASE text = RuleContent ->
         [ ok |-> TRUE,
           value |-> [ learning |-> "Use contractions", applies_to |-> "social",
                       priority |-> "high" ] ]
    [] text = EmptyObjectContent -> [ ok |-> TRUE, value |-> EmptyObj ]
    [] OTHER -> [ ok |-> FALSE ]

\* lines 180-185 and 246-251: the parsed object, `noMatch' when the content has
\* no braces, `caught' when JSON.parse throws
Extract(content, noMatch, caught) ==
  IF JsonMatch(content) = None THEN noMatch
  ELSE IF JsonParse(JsonMatch(content)[1]).ok THEN JsonParse(JsonMatch(content)[1]).value
  ELSE caught

\* a value in a template literal
Template(o, k) == IF Has(o, k) THEN o[k] ELSE "undefined"

\* learnFromFeedback, lines 180-185
LearningOf(content, input) ==
  LET fallback == [ learning |-> input.feedback, applies_to |-> "all", priority |-> "medium" ]
  IN  Extract(content, fallback, fallback)

\* analyzeSample, lines 246-251
AnalysisOf(content) == Extract(content, [error |-> "Could not parse"], [raw |-> content])


(***************************************************************************)
(* The task messages given to the agents, and the handle calls in flight.  *)
(***************************************************************************)
AnalyticsPayloads ==
  { [ action |-> "track",
      input  |-> [ contentId |-> "c1", platform |-> "twitter",
                   metrics |-> [ views |-> 4, likes |-> 1 ] ] ],
    [ action |-> "track",
      input  |-> [ contentId |-> "c1", platform |-> "linkedin",
                   metrics |-> [ likes |-> 2, engagement |-> 7 ],
                   title |-> "Launch", topic |-> "ai", tags |-> << "q3" >> ] ],
    [ action |-> "track",
      input  |-> [ contentId |-> "c1", platform |-> "twitter",
                   metrics |-> [ shares |-> 1, engagement |-> 7 ],
                   title |-> "Relaunch" ] ],
    [ action |-> "report", input |-> EmptyObj ],
    [ action |-> "report", input |-> [ days |-> 7, platform |-> "twitter" ] ],
    [ action |-> "insights", input |-> EmptyObj ],
    [ action |-> "top-content", input |-> EmptyObj ],
    [ action |-> "top-content", input |-> [ limit |-> 1, metric |-> "likes" ] ],
    [ action |-> "unknown-action", input |-> EmptyObj ] }

\* Texts for the examples and the learnings a set-brand task supplies: one more
\* than a profile keeps of either.  A learning is the pair of what `[x] y' is
\* made of.
Samples ==
  << "s01", "s02", "s03", "s04", "s05", "s06", "s07", "s08", "s09", "s10", "s11",
     "s12", "s13", "s14", "s15", "s16", "s17", "s18", "s19", "s20", "s21" >>

BrandPayloads ==
  { [ action |-> "get-brand-context", input |-> EmptyObj ],
    [ action |-> "get-brand-context", input |-> [ brandName |-> "acme" ] ],
    [ action |-> "set-brand",
      input  |-> [ name |-> "acme", voice |-> "witty", keywords |-> << "ai", "ml", "ai" >>,
                   examples |-> << "e1" >>, learnings |-> << << "all", "l1" >> >> ] ],
    [ action |-> "set-brand",
      input  |-> [ examples  |-> SubSeq(Samples, 1, MaxExamples + 1),
                   learnings |-> [i \in 1..(MaxLearnings + 1) |-> << "all", Samples[i] >>] ] ],
    [ action |-> "set-brand",
      input  |-> [ tone |-> "bold", socialStyle |-> [ twitter |-> "one-liners" ],
                   keywords |-> << "ai" >> ] ],
    [ action |-> "learn-from-feedback", input |-> [ feedback |-> "Too formal" ] ],
    [ action |-> "learn-from-feedback",
      input  |-> [ feedback |-> "More data", contentType |-> "blog", rating |-> 4 ] ],
    [ action |-> "analyze-sample", input |-> [ sample |-> "Our launch went well." ] ],
    [ action |-> "unknown-action", input |-> EmptyObj ] }

\* The task envelope a caller makes for an agent; a handler below is given
\* the payload and handles this envelope.
TaskMessage(to, payload) ==
  createMessage(created, "orchestrator", to, "task", payload, None)

Handling == { s \in Slots : tasks[s].op # "none" }
FreeTask == CHOOSE s \in Slots : s \notin Handling /\ \A q \in 1..(s - 1) : q \in Handling
CanHandle ==
  /\ handled < MaxTasks
  /\ Cardinality(Handling) < MaxInFlight

\* a handle call in flight: `data' is what it keeps across its awaits, `pre'
\* the entries of the Memory when the task was given
Task(op, pc, agent, message, data) ==
  [ op |-> op, pc |-> pc, agent |-> agent, message |-> message, data |-> data,
    pre |-> memory.entries ]

\* what a handle call returned, and that it threw
Returned(agent, message, envelope, pre) ==
  [ op |-> "return", agent |-> agent, task |-> message, msg |-> envelope, pre |-> pre ]
Thrown(agent, message, pre) ==
  [ op |-> "throw", agent |-> agent, task |-> message, pre |-> pre ]

\* a task is taken and handle returns without an await: the task envelope and
\* the answer are made
Answer(agent, message, kind, payload) ==
  /\ reply' = Returned(agent, message,
                       AgentReply(created + 1, agent, message, kind, payload),
                       memory.entries)
  /\ handled' = handled + 1
  /\ created' = created + 2
  /\ UNCHANGED << now, registryVars, taskVars, memory, defaultLearnings, tasks >>

\* a task is taken and handle reaches an await
Await(task) ==
  /\ tasks' = [tasks EXCEPT ![FreeTask] = task]
  /\ reply' = NoReply
  /\ handled' = handled + 1
  /\ created' = created + 1

\* a handle call in flight returns
Return(s, kind, payload) ==
  /\ reply' = Returned(tasks[s].agent, tasks[s].message,
                       AgentReply(created, tasks[s].agent, tasks[s].message, kind, payload),
                       tasks[s].pre)
  /\ tasks' = [tasks EXCEPT ![s] = NoTask]
  /\ created' = created + 1
  /\ UNCHANGED << now, registryVars, taskVars, memory, defaultLearnings, handled >>

\* what a handle call returned after llm.chat answered with `content'
Heard(r, content) == r @@ [ content |-> content ]

\* a handle call in flight returns, llm.chat having answered with `content'
ReturnHeard(s, kind, payload, content) ==
  /\ reply' = Heard(Returned(tasks[s].agent, tasks[s].message,
                             AgentReply(created, tasks[s].agent, tasks[s].message,
                                        kind, payload),
                             tasks[s].pre), content)
  /\ tasks' = [tasks EXCEPT ![s] = NoTask]
  /\ created' = created + 1
  /\ UNCHANGED << now, registryVars, taskVars, memory, defaultLearnings, handled >>

(***************************************************************************)
(* AnalyticsAgent.handle, lines 67-79, and its handlers.                   *)
(***************************************************************************)
\* track, lines 82-112, up to the await of memory.set
track(payload) ==
  /\ CanHandle
  /\ payload.action = "track"
  /\ LET input == payload.input
         key == Key("metrics:", << input.contentId >>)
         value == TrackMerge(MemoryGet(memory, key), input, now)
     IN  memory' = MemorySet(memory, key, value, "analytics", TrackTags(input))
  /\ Await(Task("track", "set", "analytics", TaskMessage("analytics", payload), EmptyObj))
  /\ tracked' = Append(tracked, [ input |-> payload.input, at |-> now ])
  /\ UNCHANGED << now, registryVars, wrote, defaultLearnings >>

\* track, lines 114-117: memory.set settled
trackDone(s) ==
  /\ tasks[s].op = "track"
  /\ LET input == tasks[s].message.payload.input
     IN  Return(s, "result",
                ResultPayload([ tracked |-> TRUE, contentId |-> input.contentId,
                                platform |-> input.platform ]))

\* report, lines 120-160
report(payload) ==
  /\ CanHandle
  /\ payload.action = "report"
  /\ Answer("analytics", TaskMessage("analytics", payload), "result",
            ResultPayload(ReportOutput(memory, payload.input, now)))

\* getInsights, lines 162-218
getInsights(payload) ==
  /\ CanHandle
  /\ payload.action = "insights"
  /\ Answer("analytics", TaskMessage("analytics", payload), "result",
            ResultPayload([ insights |-> Insights(memory) ]))

\* topContent, lines 220-247
topContent(payload) ==
  /\ CanHandle
  /\ payload.action = "top-content"
  /\ Answer("analytics", TaskMessage("analytics", payload), "result",
            ResultPayload([ content |-> TopContent(memory, payload.input) ]))

\* handle, lines 76-78: no handler for the action
unknownAction(payload) ==
  /\ CanHandle
  /\ payload.action \notin { "track", "report", "insights", "top-content" }
  /\ Answer("analytics", TaskMessage("analytics", payload), "error",
            [ code |-> "UNKNOWN_ACTION",
              message |-> << "Unknown:", payload.action >>,
              retryable |-> FALSE ])

\* handle, lines 67-79
handleAnalytics(payload) ==
  \/ track(payload)
  \/ report(payload)
  \/ getInsights(payload)
  \/ topContent(payload)
  \/ unknownAction(payload)


(***************************************************************************)
(* BrandManagerAgent.handle, lines 83-93, and its handlers.                *)
(***************************************************************************)
\* getBrandContext, lines 95-112: also the handler of every action that
\* handle has no other handler for (line 92)
getBrandContext(payload) ==
  /\ CanHandle
  /\ payload.action \notin { "set-brand", "learn-from-feedback", "analyze-sample" }
  /\ LET profile == getProfile(memory, OrString(payload.input, "brandName", "default"))
     IN  Answer("brand-manager", TaskMessage("brand-manager", payload), "result",
                ResultPayload([ profile    |-> ReadProfile(profile, defaultLearnings),
                                guidelines |-> buildGuidelines(profile, defaultLearnings) ]))

\* setBrand, lines 114-129, up to the await of the first memory.set
setBrand(payload) ==
  /\ CanHandle
  /\ payload.action = "set-brand"
  /\ LET input == payload.input
         brandName == SetBrandName(input)
         updated == SetBrandMerge(memory, input, defaultLearnings)
     IN  /\ memory' = MemorySet(memory, BrandKey(brandName), updated, "brand-manager",
                                {"brand", brandName})
         /\ Await(Task("set-brand", "set:profile", "brand-manager", TaskMessage("brand-manager", payload), updated))
         /\ wrote' = Append(wrote, [ brand |-> brandName, profile |-> updated ])
  /\ UNCHANGED << now, registryVars, tracked, defaultLearnings >>

\* The keys setBrand writes after the profile, lines 132-135, in their order.
SharedKey(pc) ==
  CASE pc = "set:voice" -> Key("brand_voice", << >>)
    [] pc = "set:tone" -> Key("brand_tone", << >>)
    [] pc = "set:audience" -> Key("brand_audience", << >>)
    [] pc = "set:social" -> Key("social_tone", << >>)

SharedValue(pc, updated) ==
  CASE pc = "set:voice" -> updated.voice
    [] pc = "set:tone" -> updated.tone
    [] pc = "set:audience" -> updated.audience
    [] pc = "set:social" -> [ json |-> updated.socialStyle ]

NextShared(pc) ==
  CASE pc = "set:profile" -> "set:voice"
    [] pc = "set:voice" -> "set:tone"
    [] pc = "set:tone" -> "set:audience"
    [] pc = "set:audience" -> "set:social"
    [] pc = "set:social" -> "return"

\* setBrand, lines 132-145: a memory.set settled; the next key is written, and
\* after the last one setBrand returns
setBrandNext(s) ==
  /\ tasks[s].op = "set-brand"
  /\ LET t == tasks[s]
         pc == NextShared(t.pc)
     IN  IF pc = "return"
           THEN Return(s, "result",
                       ResultPayload([ saved |-> TRUE,
                                       profile |-> ReadProfile(t.data, defaultLearnings) ]))
           ELSE /\ memory' = MemorySet(memory, SharedKey(pc), SharedValue(pc, t.data),
                                       "brand-manager", {"brand"})
                /\ tasks' = [tasks EXCEPT ![s].pc = pc]
                /\ reply' = NoReply
                /\ UNCHANGED << now, registryVars, taskVars, defaultLearnings, handled, created >>

\* learnFromFeedback, lines 148-177, up to the await of llm.chat
learnFromFeedback(payload) ==
  /\ CanHandle
  /\ payload.action = "learn-from-feedback"
  /\ Await(Task("learn-from-feedback", "llm.chat", "brand-manager", TaskMessage("brand-manager", payload), EmptyObj))
  /\ UNCHANGED << now, registryVars, taskVars, memory, defaultLearnings >>

\* analyzeSample, lines 215-243, up to the await of llm.chat
analyzeSample(payload) ==
  /\ CanHandle
  /\ payload.action = "analyze-sample"
  /\ Await(Task("analyze-sample", "llm.chat", "brand-manager", TaskMessage("brand-manager", payload), EmptyObj))
  /\ UNCHANGED << now, registryVars, taskVars, memory, defaultLearnings >>

\* handle, lines 83-93
handleBrandManager(payload) ==
  \/ setBrand(payload)
  \/ learnFromFeedback(payload)
  \/ analyzeSample(payload)
  \/ getBrandContext(payload)

\* llm.chat resolves with `content'.  analyzeSample, lines 245-259, returns;
\* learnFromFeedback, lines 179-196, pushes the learning on the learnings of
\* the default profile, cuts them to the last MaxLearnings in a new array, and
\* writes the profile, up to the await of that memory.set
chatDone(s, content) ==
  /\ tasks[s].op \in { "learn-from-feedback", "analyze-sample" }
  /\ tasks[s].pc = "llm.chat"
  /\ IF tasks[s].op = "analyze-sample"
       THEN ReturnHeard(s, "result", ResultPayload([ analysis |-> AnalysisOf(content) ]),
                        content)
       ELSE LET learning == LearningOf(content, tasks[s].message.payload.input)
                profile == getProfile(memory, "default")
                pushed == Append(Items(profile.learnings, defaultLearnings),
                                 << Template(learning, "applies_to"),
                                    Template(learning, "learning") >>)
                kept == IF Len(pushed) > MaxLearnings
                          THEN OwnLearnings(Last(pushed, MaxLearnings))
                          ELSE IF profile.learnings.shared THEN SharedLearnings
                          ELSE OwnLearnings(pushed)
            IN  /\ defaultLearnings' = IF profile.learnings.shared THEN pushed
                                       ELSE defaultLearnings
                /\ memory' = MemorySet(memory, BrandKey("default"),
                                       [profile EXCEPT !.learnings = kept],
                                       "brand-manager", {"brand", "learning"})
                /\ tasks' = [tasks EXCEPT ![s] =
                               Heard([@ EXCEPT !.pc = "set:profile", !.data = learning],
                                     content)]
                /\ reply' = NoReply
                /\ UNCHANGED << now, registryVars, taskVars, handled, created >>

\* llm.chat rejects: the handler has no catch around it, handle rejects
chatFail(s) ==
  /\ tasks[s].op \in { "learn-from-feedback", "analyze-sample" }
  /\ tasks[s].pc = "llm.chat"
  /\ reply' = Thrown(tasks[s].agent, tasks[s].message, tasks[s].pre)
  /\ tasks' = [tasks EXCEPT ![s] = NoTask]
  /\ UNCHANGED << now, registryVars, taskVars, memory, defaultLearnings, handled, created >>

\* learnFromFeedback, lines 197-212: a memory.set settled; the feedback entry
\* is written under the clock reading, and after it learnFromFeedback returns
learnNext(s) ==
  /\ tasks[s].op = "learn-from-feedback"
  /\ tasks[s].pc \in { "set:profile", "set:feedback" }
  /\ LET t == tasks[s]
         input == t.message.payload.input
         contentType == OrString(input, "contentType", "general")
     IN  IF t.pc = "set:feedback"
           THEN ReturnHeard(s, "result",
                            ResultPayload([ learned  |-> Optional(t.data, "learning"),
                                            appliesTo |-> Optional(t.data, "applies_to") ]),
                            t.content)
           ELSE /\ memory' = MemorySet(memory, Key("feedback:", << now >>),
                                       [ feedback    |-> input.feedback,
                                         learning    |-> Optional(t.data, "learning"),
                                         contentType |-> contentType,
                                         rating      |-> Optional(input, "rating") ],
                                       "brand-manager", {"feedback", contentType})
                /\ tasks' = [tasks EXCEPT ![s].pc = "set:feedback"]
                /\ reply' = NoReply
                /\ UNCHANGED << now, registryVars, taskVars, defaultLearnings, handled, created >>

(***************************************************************************)
(* The specifications.  Spec lets calls overlap at their awaits; SeqSpec   *)
(* issues a call, or a client write, only when no call is in flight.       *)
(***************************************************************************)
Settle ==
  \E s \in Slots :
    \/ readFileDone(s)
    \/ memInitDone(s)
    \/ memInitFail(s)
    \/ mkdirDone(s)
    \/ writeFileDone(s)
    \/ memSetDone(s)

Next ==
  \/ Tick
  \/ init
  \/ \E config \in OverlapConfigs, rnd \in SuffixChoices : create(config, rnd)
  \/ \E id \in CallIds, updates \in OverlapUpdates : update(id, updates)
  \/ \E id \in CallIds : delete(id)
  \/ Settle

Spec == Init /\ [][Next]_vars

SeqNext ==
  \/ Tick
  \/ init
  \/ restart
  \/ Idle /\ \E config \in RegConfigs, rnd \in SuffixChoices : create(config, rnd)
  \/ Idle /\ \E id \in CallIds, updates \in RegUpdates : update(id, updates)
  \/ Idle /\ \E id \in CallIds : delete(id)
  \/ Idle /\ \E id \in CallIds, value \in NoteValues : write(id, value)
  \/ Settle

SeqSpec == Init /\ [][SeqNext]_vars

\* CreateSpec: one create on a new registry, for every partial config.
CreateNext ==
  \/ init
  \/ started = 0 /\ \E config \in CreateConfigs : create(config, 1)
  \/ Settle

CreateSpec == Init /\ [][CreateNext]_vars

\* GuideSpec: one tenant, its agent and the guidelines of the tenant.
GuideNext ==
  \/ init
  \/ started = 0 /\ \E config \in RegConfigs : create(config, 1)
  \/ Settle
  \/ \E id \in CallIds : obtain(id)
  \/ \E w \in AgentSets : agentSet(w)
  \/ \E id \in CallIds : getBrandGuidelines(id)

GuideSpec == Init /\ [][GuideNext]_vars

\* HeldSpec: one tenant, updates of it that do not overlap, and the agent of
\* the tenant, which sets one entry.
HeldNext ==
  \/ init
  \/ started = 0 /\ \E config \in RegConfigs : create(config, 1)
  \/ Idle /\ \E id \in CallIds, updates \in RegUpdates : update(id, updates)
  \/ Settle
  \/ \E id \in CallIds : obtain(id)
  \/ setLog = << >> /\ \E w \in AgentSets : agentSet(w)

HeldSpec == Init /\ [][HeldNext]_vars

\* AgentSpec: the two agents over one Memory; their handle calls overlap at
\* the awaits.
AgentSettle ==
  \E s \in Slots :
    \/ trackDone(s)
    \/ setBrandNext(s)
    \/ learnNext(s)
    \/ chatFail(s)
    \/ \E content \in LLMContents : chatDone(s, content)

AgentNext ==
  \/ Tick
  \/ \E payload \in AnalyticsPayloads : handleAnalytics(payload)
  \/ \E payload \in BrandPayloads : handleBrandManager(payload)
  \/ AgentSettle

AgentSpec == Init /\ [][AgentNext]_vars

(***************************************************************************)
(* Properties of the TenantManager.  A property of what a call returns is  *)
(* stated on the state its return leads to: there `ret' holds the call,    *)
(* its input, its result and the View when it was issued.                  *)
(***************************************************************************)
\* the credentials a platforms record gives: <<key, value>> of every platform
CredentialsOf(platforms) ==
  UNION { { << k, platforms[i][2][k] >> : k \in DOMAIN platforms[i][2] } :
          i \in 1..Len(platforms) }

\* the credentials an executor holds
Held(exec) == { << k, exec[k] >> : k \in DOMAIN exec }

\* get(id) of the registry in this state, and in a View
Get(id) == ReadTenant(objs[MapGet(tenants, id)])
Listed(view) == { view.tenants[i].id : i \in 1..Len(view.tenants) }
GetIn(view, id) ==
  view.tenants[CHOOSE i \in 1..Len(view.tenants) : view.tenants[i].id = id]

\* what a View shows of the tenants other than `id'
Others(view, id) ==
  [ tenants   |-> SelectSeq(view.tenants, LAMBDA t : t.id # id),
    executors |-> FnDelete(view.executors, id),
    entries   |-> FnDelete(view.entries, id) ]

\* C3: any two distinct tenants of the registry have distinct Memory objects
\* over distinct backing locations, a write through the Memory of one tenant
\* changes neither the entries nor the backing location of another, and (no
\* call in flight, none failed) the executor of a tenant holds no credential
\* of another tenant's platforms that its own platforms do not give.
TenantIsolation ==
  /\ \A a \in DOMAIN memories : \A b \in DOMAIN memories \ {a} :
       /\ memories[a] # memories[b]
       /\ mems[memories[a]].dir # mems[memories[b]].dir
  /\ ret.op = "write" =>
       \A b \in DOMAIN memories \ {ret.id} :
         /\ b \in DOMAIN ret.pre.entries
         /\ mems[memories[b]].entries = ret.pre.entries[b]
         /\ stores[mems[memories[b]].dir] = ret.pre.disk[mems[memories[b]].dir]
  /\ (Idle /\ ~failed) =>
       \A a \in MapKeys(tenants) : \A b \in MapKeys(tenants) \ {a} :
         (Held(executors[a]) \cap CredentialsOf(Get(b).platforms))
            \subseteq CredentialsOf(Get(a).platforms)

\* a client of one tenant has written while another tenant, whose credentials
\* the writer's executor does not hold, has a Memory with entries
TenantIsolationWitness ==
  /\ ret.op = "write"
  /\ ~failed
  /\ \E b \in DOMAIN memories \ {ret.id} :
       /\ mems[memories[b]].entries # << >>
       /\ CredentialsOf(Get(b).platforms) # {}
       /\ CredentialsOf(Get(b).platforms) \cap Held(executors[ret.id]) = {}

\* an update that gave platforms has returned the tenant
UpdatedPlatforms ==
  /\ ret.op = "update"
  /\ ~ret.threw
  /\ ret.value # None
  /\ Has(ret.input, "platforms")

\* C4: after update(id, {platforms: P}) the executor of the tenant exposes
\* every credential key/value given in P, and none of the credentials the
\* update removed from the platforms record.
CredentialsExposed ==
  UpdatedPlatforms =>
    /\ CredentialsOf(ret.input.platforms) \subseteq Held(executors[ret.id])
    /\ \A cred \in CredentialsOf(GetIn(ret.pre, ret.id).platforms)
                     \ CredentialsOf(ret.value[1].platforms) :
         cred \notin Held(executors[ret.id])

\* C5: an update that re-provisions the Memory of a tenant loses no entry that
\* was written before it: every key the tenant's Memory held when update was
\* called is returned with the same value by the Memory the registry gives
\* after it.
WritesSurviveUpdate ==
  (UpdatedPlatforms /\ ret.id \in DOMAIN ret.pre.entries) =>
    /\ ret.id \in DOMAIN memories
    /\ LET before == ret.pre.entries[ret.id]
       IN  \A i \in 1..Len(before) :
             MemoryGet(mems[memories[ret.id]], before[i][1]) = Some(before[i][2].value)

\* such an update has returned for a tenant whose Memory held the entries of
\* create and an entry a client wrote, and the Memory is a new object
WritesSurviveUpdateWitness ==
  /\ UpdatedPlatforms
  /\ ret.id \in DOMAIN ret.pre.entries
  /\ MapHas(ret.pre.entries[ret.id], NoteKey)
  /\ MapHas(ret.pre.entries[ret.id], Key("brand_voice", << >>))

\* C6: delete(id) returns true exactly when the registry held a record with
\* that id when it was called; when it has returned, get(id), getMemory(id) and
\* getExecutor(id) are absent and list() does not contain the tenant, and the
\* records, the Memory entries and the executors of the other tenants are what
\* they were (calls that do not overlap).
DeleteRemoves ==
  ret.op = "delete" =>
    /\ ret.value = (ret.id \in Listed(ret.pre))
    /\ ~MapHas(tenants, ret.id)
    /\ ret.id \notin DOMAIN memories
    /\ ret.id \notin DOMAIN executors
    /\ ret.id \notin Listed(View)
    /\ Others(View, ret.id) = Others(ret.pre, ret.id)

\* delete has returned true for a tenant that had a Memory and credentials,
\* and another tenant with entries is still registered
DeleteRemovesWitness ==
  /\ ret.op = "delete"
  /\ ret.value = TRUE
  /\ ret.id \in DOMAIN ret.pre.entries
  /\ ret.pre.executors[ret.id] # EmptyObj
  /\ \E b \in MapKeys(tenants) : b \in DOMAIN memories /\ mems[memories[b]].entries # << >>

\* the records tenants.json holds
ManifestRecords == IF manifest.kind = "json" THEN manifest.tenants ELSE << >>

\* the records of this.tenants, as JSON.stringify writes them
CollectionRecords == SaveTenants(tenants, objs).tenants

\* C7: whenever no call on the registry is in flight, after create, update and
\* delete calls that all succeeded, overlapping or not, the manifest holds
\* exactly the records of the in-memory collection, with their current values.
ManifestConsistent ==
  (phase = "ready" /\ Idle /\ ~failed) => ManifestRecords = CollectionRecords

\* The same for calls of which none was issued while another was in flight.
ManifestConsistentSequential ==
  (phase = "ready" /\ Idle /\ ~failed /\ ~overlap) => ManifestRecords = CollectionRecords

\* No state without a call in flight has two tenants registered and written of
\* which the manifest holds one under an older name and the other as it is: a
\* create of one tenant that overlaps an update of another one breaks this.
ManifestFreshAcrossTenants ==
  ~ /\ phase = "ready" /\ Idle /\ ~failed
    /\ Len(tenants) = 2
    /\ Len(ManifestRecords) = 2
    /\ \E i \in 1..2 :
         /\ ManifestRecords[i].name # CollectionRecords[i].name
         /\ ManifestRecords[3 - i] = CollectionRecords[3 - i]

\* C8: when init() of a new registry over the same data directory has returned,
\* after calls on the registry before it that all completed, list() is equal to
\* that of the registry before it, every loaded tenant has a Memory and an
\* executor, and the executor holds every credential of the tenant's platforms.
ReloadRoundTrip ==
  (ret.op = "init" /\ ~failed) =>
    /\ View.tenants = prev.tenants
    /\ DOMAIN memories = MapKeys(tenants)
    /\ DOMAIN executors = MapKeys(tenants)
    /\ \A id \in MapKeys(tenants) :
         CredentialsOf(Get(id).platforms) \subseteq Held(executors[id])

\* The same, the executor holding for every credential key of the platforms a
\* value the platforms give for it, and what the executor before the restart held.
ReloadRoundTripPerKey ==
  (ret.op = "init" /\ ~failed) =>
    /\ View.tenants = prev.tenants
    /\ DOMAIN memories = MapKeys(tenants)
    /\ DOMAIN executors = MapKeys(tenants)
    /\ \A id \in MapKeys(tenants) :
         /\ Held(executors[id]) \subseteq CredentialsOf(Get(id).platforms)
         /\ DOMAIN executors[id] = { c[1] : c \in CredentialsOf(Get(id).platforms) }
         /\ id \in DOMAIN prev.executors => executors[id] = prev.executors[id]
         /\ id \in DOMAIN prev.entries => mems[memories[id]].entries = prev.entries[id]

(***************************************************************************)
(* Properties of create.                                                   *)
(***************************************************************************)
\* the defaults the specification documents for a new tenant
DefaultStrings ==
  [ voice    |-> "professional yet approachable",
    tone     |-> "authoritative but friendly",
    audience |-> "general",
    industry |-> "technology" ]
DefaultLists == [ keywords |-> << >>, avoidWords |-> << >> ]

\* create has returned the record r for the config it was given
Created == ret.op = "create" /\ ~ret.threw

\* The record create returned is the one get gives and has the given name; the
\* fields for which `given' tells that a value was supplied have that value,
\* the others the documented default.
DefaultsApplied(given(_, _)) ==
  LET r == ret.value[1]
      b == Prop(ret.input, "brand")
      st == Prop(ret.input, "settings")
  IN  /\ MapHas(tenants, r.id)
      /\ Get(r.id) = r
      /\ r.name = ret.input.name
      /\ DOMAIN r.brand = (DOMAIN DefaultStrings) \cup (DOMAIN DefaultLists)
      /\ \A f \in DOMAIN DefaultStrings :
           r.brand[f] = IF given(b, f) THEN b[f] ELSE DefaultStrings[f]
      /\ \A f \in DOMAIN DefaultLists :
           r.brand[f] = IF Has(b, f) THEN b[f] ELSE DefaultLists[f]
      /\ r.settings.defaultType =
           IF given(st, "defaultType") THEN st.defaultType ELSE "blog+social"
      /\ r.settings.autoPublish =
           IF Has(st, "autoPublish") THEN st.autoPublish ELSE FALSE
      /\ r.settings.platforms =
           IF Has(st, "platforms") THEN st.platforms ELSE << "local-file" >>
      /\ r.settings.defaultModel =
           IF Has(st, "defaultModel") THEN Some(st.defaultModel) ELSE None

KeptPositions(s) ==
  { i \in 1..Len(s) : IsAlnum(s[i]) \/ i = 1 \/ IsAlnum(s[i - 1]) }

\* the n-th element of a set of numbers
Nth(S, n) == CHOOSE i \in S : Cardinality({ j \in S : j < i }) = n - 1

\* the name lower-cased, every maximal run of characters outside [a-z0-9]
\* replaced by one "-"
DerivedSlug(name) ==
  LET l == toLowerCase(name)
      K == KeptPositions(l)
  IN  [n \in 1..Cardinality(K) |-> IF IsAlnum(l[Nth(K, n)]) THEN l[Nth(K, n)] ELSE "-"]

\* C10: the slug of the record create returns is config.slug, unchanged, when
\* a slug is supplied, and otherwise the name lower-cased with every maximal
\* run of non-alphanumeric characters replaced by a single "-".
SlugDerivation ==
  Created =>
    ret.value[1].slug = IF Has(ret.input, "slug") THEN ret.input.slug
                        ELSE DerivedSlug(ret.input.name)

\* C10 as it holds: a supplied slug is used unchanged when it is not empty; an
\* empty one is treated as not supplied.
SlugDerivationNonEmpty ==
  Created =>
    ret.value[1].slug = IF Has(ret.input, "slug") /\ ret.input.slug # << >>
                          THEN ret.input.slug
                          ELSE DerivedSlug(ret.input.name)

\* create has returned a derived slug for a name with an upper-case letter and
\* a run of two characters outside [a-z0-9]
SlugDerivationWitness ==
  /\ Created
  /\ ~Has(ret.input, "slug")
  /\ ret.input.name = << "A", " ", "&" >>
  /\ ret.value[1].slug = << "a", "-" >>

(***************************************************************************)
(* Properties of the agents.  A property of what handle returns is stated  *)
(* on the state its return leads to: there `reply' holds the agent, the    *)
(* task envelope, the envelope returned and the entries of the Memory when *)
(* the task was given.                                                     *)
(***************************************************************************)
\* the actions the capabilities of an agent name (lines 38-61 of analytics,
\* lines 53-76 of brand-manager)
Recognised(agent) ==
  IF agent = "analytics" THEN { "track", "report", "insights", "top-content" }
  ELSE { "get-brand-context", "set-brand", "learn-from-feedback", "analyze-sample" }

\* handle has returned for a task whose action the agent does not recognise
UnknownHandled ==
  /\ reply.op = "return"
  /\ reply.task.payload.action \notin Recognised(reply.agent)

\* the envelope returned is the error of an unknown action, and the Memory
\* holds what it held when the task was given
Rejected ==
  /\ reply.msg.kind = "error"
  /\ reply.msg.payload.code = "UNKNOWN_ACTION"
  /\ reply.msg.payload.retryable = FALSE
  /\ reply.msg.correlationId = reply.task.id
  /\ memory.entries = reply.pre

\* C1: for both agents and every task whose action the agent does not
\* recognise, handle returns an error envelope with code UNKNOWN_ACTION,
\* retryable false and the id of the task as correlationId, and writes nothing
\* to the Memory.
UnknownActionRejected == UnknownHandled => Rejected

\* The same for the analytics agent alone.
UnknownActionRejectedByAnalytics ==
  (UnknownHandled /\ reply.agent = "analytics") => Rejected

\* C2: on every path of either agent that returns, the envelope returned has
\* kind result or error, the id of the task as correlationId, the sender of
\* the task as recipient and the name of the agent as sender.
EnvelopeCorrelated ==
  reply.op = "return" =>
    /\ reply.msg.kind \in { "result", "error" }
    /\ reply.msg.correlationId = reply.task.id
    /\ reply.msg.to = reply.task.from
    /\ reply.msg.from = reply.agent
    /\ reply.msg.from = reply.task.to

\* learnFromFeedback has returned, after its three awaits, for a task that
\* was not the first envelope made
EnvelopeCorrelatedWitness ==
  /\ reply.op = "return"
  /\ reply.task.payload.action = "learn-from-feedback"
  /\ reply.msg.kind = "result"
  /\ reply.task.id # MessageId(0)
  /\ reply.msg.id # MessageId(1)

(***************************************************************************)
(* Failures and lookups of the TenantManager.                              *)
(***************************************************************************)
\* a call has returned, or rejected, in whose course the init() of a tenant's
\* Memory rejected
ProvisioningFailed == ret.op \in { "init", "create", "update" } /\ Has(ret, "error")

\* C11: whenever init() of a tenant's Memory fails while the registry
\* provisions the tenant, in init(), create() or update() with platforms, the
\* call of the registry rejects with the failure.
ProvisioningFailureSurfaced == ProvisioningFailed => ret.threw

\* The same for create and update alone.
ProvisioningFailureSurfacedByCreateUpdate ==
  (ProvisioningFailed /\ ret.op # "init") => ret.threw

\* init() of a registry has returned without raising although the init() of a
\* persisted tenant's Memory rejected; the tenant is listed without a Memory
ProvisioningFailureSwallowed ==
  /\ ProvisioningFailed
  /\ ret.op = "init"
  /\ ~ret.threw
  /\ MapHas(tenants, ret.id)
  /\ ret.id \notin DOMAIN memories

\* C12: when the manifest is missing, unreadable or not parseable, init() of
\* the registry returns without raising and leaves the registry empty: list()
\* is empty, every lookup gives nothing, no Memory and no executor is
\* registered.
ManifestFailureTolerated ==
  (ret.op = "init" /\ manifest.kind # "json") =>
    /\ ~ret.threw
    /\ View.tenants = << >>
    /\ \A id \in issued \cup { NoId } : ~MapHas(tenants, id)
    /\ memories = EmptyObj
    /\ executors = EmptyObj

\* init() has returned over a manifest JSON.parse rejects, in a new registry
\* that replaced one which listed a tenant
ManifestFailureToleratedWitness ==
  /\ ret.op = "init"
  /\ manifest = Unparseable
  /\ ~ret.threw
  /\ prev.tenants # << >>

\* the ids that are not the id of a tenant of the registry: one never given
\* to a tenant, and those of tenants that were created and are registered no more
UnknownIds == (issued \cup { NoId }) \ MapKeys(tenants)

\* C13: for every id that is not the id of a tenant of the registry,
\* getMemory(id), getExecutor(id) and getOutputDir(id) each return nothing.
UnknownIdAbsent ==
  phase = "ready" =>
    \A id \in UnknownIds :
      /\ getMemory(id) = None
      /\ getExecutor(id) = None
      /\ getOutputDir(id) = None

\* The same for getMemory and getExecutor alone.
UnknownIdNoResources ==
  phase = "ready" =>
    \A id \in UnknownIds : getMemory(id) = None /\ getExecutor(id) = None

\* The same for getMemory and getExecutor when a tenant was deleted: its id is
\* unknown again
DeletedIdNoResources ==
  (ret.op = "delete" /\ ret.value = TRUE) =>
    /\ ret.id \in UnknownIds
    /\ getMemory(ret.id) = None /\ getExecutor(ret.id) = None

(***************************************************************************)
(* Properties of update.                                                   *)
(***************************************************************************)
\* update has returned the record of a known tenant
Updated == ret.op = "update" /\ ~ret.threw /\ ret.value # None

\* the object `new' has, property by property, the value of `given' where
\* `given' has the property and the value of `old' where it has not
MergedOver(new, old, given) ==
  /\ DOMAIN new = (DOMAIN old) \cup (DOMAIN given)
  /\ \A f \in DOMAIN new : new[f] = IF Has(given, f) THEN given[f] ELSE old[f]

\* The record update returned is the one get gives; its id and createdAt are
\* those of the record before the call; the top-level fields of `scalars'
\* have the value of the updates where they give one and their former value
\* where not; brand and settings are merged field by field.
MergedPerField(scalars) ==
  LET r == ret.value[1]
      old == GetIn(ret.pre, ret.id)
      u == ret.input
  IN  /\ Get(ret.id) = r
      /\ r.id = old.id
      /\ r.createdAt = old.createdAt
      /\ \A f \in scalars : r[f] = IF Has(u, f) THEN u[f] ELSE old[f]
      /\ MergedOver(r.brand, old.brand, Prop(u, "brand"))
      /\ MergedOver(r.settings, old.settings, Prop(u, "settings"))

\* C14: update(id, u) on a known tenant merges per field: name and slug take
\* the value u supplies, every brand or settings field of u takes u's value,
\* every other brand or settings field keeps its value; id and createdAt
\* never change.
UpdateMerges == Updated => MergedPerField({ "name", "slug" })

\* The same without the slug.
UpdateMergesName == Updated => MergedPerField({ "name" })

\* update never changes the slug.
UpdateKeepsSlug == Updated => ret.value[1].slug = GetIn(ret.pre, ret.id).slug

(***************************************************************************)
(* Properties of the ids.                                                  *)
(***************************************************************************)
\* C15: tenant ids are unique and never reused: the id a create call gives
\* to its tenant is none of the ids that create calls before it gave, those
\* of deleted tenants included, and the record registered under an id has
\* that id at all times.
IdsNeverReused ==
  [][ /\ \A s \in Slots :
          (calls[s].op = "none" /\ calls'[s].op = "create") => calls'[s].id \notin issued
      /\ \A i \in 1..Len(tenants') : objs'[tenants'[i][2]].id = tenants'[i][1] ]_vars

\* The second part alone: the record registered under an id has that id, in
\* the registry and in the manifest it writes.
IdsStable ==
  /\ \A i \in 1..Len(tenants) : objs[tenants[i][2]].id = tenants[i][1]
  /\ \A s \in InFlight : calls[s].op \in { "create", "update" } => objs[calls[s].obj].id = calls[s].id

(***************************************************************************)
(* Properties of the brand profiles the brand-manager stores.  They are    *)
(* stated on the step that writes a profile: setBrand up to its first      *)
(* await, and learnFromFeedback when llm.chat has answered.                *)
(***************************************************************************)
NoDuplicates(s) == \A i \in 1..Len(s) : \A j \in 1..Len(s) : s[i] = s[j] => i = j

\* the lists of the profile stored under brand:<name> in the entries `mem'
\* holds, the learnings by their elements; empty lists when none is stored
StoredLists(mem, name, dl) ==
  LET stored == MemoryGet(mem, BrandKey(name))
  IN  IF stored = None
        THEN [ keywords |-> << >>, avoidWords |-> << >>, examples |-> << >>,
               learnings |-> << >> ]
        ELSE [ keywords   |-> stored[1].keywords,
               avoidWords |-> stored[1].avoidWords,
               examples   |-> stored[1].examples,
               learnings  |-> Items(stored[1].learnings, dl) ]

\* the names of the brands that have a profile stored
StoredBrands(mem) ==
  { mem.entries[i][1][2][1] : i \in { j \in 1..Len(mem.entries) : mem.entries[j][1][1] = "brand:" } }

\* a handle call takes a set-brand task in this step and writes the profile
SetBrandStep(s) == tasks[s].op = "none" /\ tasks'[s].op = "set-brand"

\* a learn-from-feedback call writes the default profile in this step
LearnStep(s) ==
  /\ tasks[s].op = "learn-from-feedback" /\ tasks[s].pc = "llm.chat"
  /\ tasks'[s].op = "learn-from-feedback" /\ tasks'[s].pc = "set:profile"

\* what the input of a set-brand task supplies for a list
Supplied(input, f) == IF Has(input, f) THEN input[f] ELSE << >>

\* keywords and avoidWords after a set-brand are the duplicate-free union of
\* what the profile held and what the task supplies; the examples are the last
\* MaxExamples of those held followed by those supplied
KeywordsExamplesMerged(s) ==
  LET input == tasks'[s].message.payload.input
      name == SetBrandName(input)
      old == StoredLists(memory, name, defaultLearnings)
      new == StoredLists(memory', name, defaultLearnings')
  IN  /\ \A f \in { "keywords", "avoidWords" } :
           /\ NoDuplicates(new[f])
           /\ SeqRange(new[f]) = SeqRange(old[f]) \cup SeqRange(Supplied(input, f))
      /\ new.examples = Last(old.examples \o Supplied(input, "examples"), MaxExamples)

\* the learnings after a set-brand are the last MaxLearnings of those held
\* followed by those supplied
LearningsMerged(s) ==
  LET input == tasks'[s].message.payload.input
      name == SetBrandName(input)
      old == StoredLists(memory, name, defaultLearnings)
      new == StoredLists(memory', name, defaultLearnings')
  IN  new.learnings = Last(old.learnings \o Supplied(input, "learnings"), MaxLearnings)

\* the learnings of the default profile after a learn-from-feedback are the
\* last MaxLearnings of those held followed by one more
LearningAppended ==
  LET old == StoredLists(memory, "default", defaultLearnings).learnings
      new == StoredLists(memory', "default", defaultLearnings').learnings
  IN  /\ new # << >>
      /\ new = Last(Append(old, new[Len(new)]), MaxLearnings)

\* every stored profile has duplicate-free keywords and avoidWords, at most
\* MaxExamples examples and at most MaxLearnings learnings
ListsBounded(mem, dl) ==
  \A name \in StoredBrands(mem) :
    LET p == StoredLists(mem, name, dl)
    IN  /\ NoDuplicates(p.keywords) /\ NoDuplicates(p.avoidWords)
        /\ Len(p.examples) <= MaxExamples
        /\ Len(p.learnings) <= MaxLearnings

\* C16: after any sequence of set-brand and learn-from-feedback tasks, every
\* stored brand profile has keywords and avoidWords that are the
\* duplicate-free union of all values supplied so far, examples that are at
\* most the 10 most recently appended ones, and learnings that are at most
\* the 20 most recently appended ones.
ProfileListsKept ==
  [][ /\ ListsBounded(memory', defaultLearnings')
      /\ \A s \in Slots :
           /\ SetBrandStep(s) => KeywordsExamplesMerged(s) /\ LearningsMerged(s)
           /\ LearnStep(s) => LearningAppended ]_vars

\* The same for keywords, avoidWords and examples, and for the learnings a
\* learn-from-feedback appends.
ProfileKeywordsExamplesKept ==
  [][ \A s \in Slots :
        /\ SetBrandStep(s) => KeywordsExamplesMerged(s)
        /\ LearnStep(s) => LearningAppended ]_vars

\* a set-brand task is taken whose learnings, with those the profile holds,
\* are no more than MaxLearnings
SetBrandUnderCap(s) ==
  /\ SetBrandStep(s)
  /\ LET input == tasks'[s].message.payload.input
         old == StoredLists(memory, SetBrandName(input), defaultLearnings)
     IN  Len(old.learnings \o Supplied(input, "learnings")) <= MaxLearnings

\* The learnings a set-brand stores when they are no more than MaxLearnings.
ProfileLearningsKeptUnderCap ==
  [][ \A s \in Slots : SetBrandUnderCap(s) => LearningsMerged(s) ]_vars

\* The same when the profile is the default one, or no learn-from-feedback
\* has pushed on the learnings of DEFAULT_PROFILE.
ProfileLearningsKeptForDefault ==
  [][ \A s \in Slots :
        (/\ SetBrandUnderCap(s)
         /\ \/ SetBrandName(tasks'[s].message.payload.input) = "default"
            \/ defaultLearnings = << >>) => LearningsMerged(s) ]_vars

(***************************************************************************)
(* Properties of the handlers that ask the LLM.                            *)
(***************************************************************************)
\* no JSON can be extracted from the content: it has no text in braces, or
\* JSON.parse rejects the text in braces
Unextractable(content) ==
  \/ JsonMatch(content) = None
  \/ ~JsonParse(JsonMatch(content)[1]).ok

\* learn-from-feedback or analyze-sample has returned, llm.chat having answered
Answered == reply.op = "return" /\ Has(reply, "content")

\* the output is the raw text: the feedback as the rule learned, the content
\* of the answer as the analysis
RawText ==
  IF reply.task.payload.action = "learn-from-feedback"
    THEN reply.msg.payload.output.learned = Some(reply.task.payload.input.feedback)
    ELSE reply.msg.payload.output.analysis = [ raw |-> reply.content ]

\* C17: for every content the LLM answers with, learn-from-feedback and
\* analyze-sample return a result envelope, and whenever no JSON can be
\* extracted from the content the output falls back to the raw text: the
\* feedback as the learned rule, the content as the analysis.
LLMFallback ==
  Answered =>
    /\ reply.msg.kind = "result"
    /\ reply.msg.payload.success
    /\ Unextractable(reply.content) => RawText

\* The same, the raw text being asked of analyze-sample only when the content
\* has a text in braces.
LLMFallbackBraced ==
  Answered =>
    /\ reply.msg.kind = "result"
    /\ reply.msg.payload.success
    /\ (/\ Unextractable(reply.content)
        /\ \/ reply.task.payload.action = "learn-from-feedback"
           \/ JsonMatch(reply.content) # None) => RawText

(***************************************************************************)
(* Properties of the entries create writes for a new tenant.               *)
(***************************************************************************)
\* where a create call is while it writes the brand entries
Seeding == { "set:voice", "set:tone", "set:audience", "set:brand" }

\* the Memory of the tenant holds the brand fields of the record r under the
\* well-known keys
Seeded(r) ==
  /\ r.id \in DOMAIN memories
  /\ LET mem == mems[memories[r.id]]
     IN  /\ MemoryGet(mem, Key("brand_voice", << >>)) = Some(r.brand.voice)
         /\ MemoryGet(mem, Key("brand_tone", << >>)) = Some(r.brand.tone)
         /\ MemoryGet(mem, Key("brand_audience", << >>)) = Some(r.brand.audience)
         /\ MemoryGet(mem, Key("brand:", r.slug)) = Some(r.brand)

\* the resources of the tenant of the create call `c' are provisioned and the
\* manifest holds its record
ProvisionedAndPersisted(c) ==
  /\ c.id \in DOMAIN memories
  /\ c.id \in DOMAIN executors
  /\ OutputDir(c.id) \in outputDirs
  /\ MemDir(c.id) \in DOMAIN stores
  /\ \E i \in 1..Len(ManifestRecords) : ManifestRecords[i] = JsonTenant(objs[c.obj])

\* the backing location of the tenant's Memory held no entry when the create
\* call `c' was issued
NewLocation(c) ==
  MemDir(c.id) \in DOMAIN c.pre.disk => c.pre.disk[MemDir(c.id)] = << >>

\* C18: when create has returned the record r, the Memory of the new tenant
\* holds brand_voice, brand_tone, brand_audience and brand:<r.slug> with the
\* values of r.brand; create writes them only after the resources of the
\* tenant are provisioned and the manifest is persisted: while it writes them
\* both are done, and before that the Memory's location holds no entry
\* (calls that do not overlap).
CreateSeeds ==
  /\ Created => Seeded(ret.value[1])
  /\ \A s \in InFlight :
       calls[s].op = "create" =>
         /\ calls[s].pc \in Seeding => ProvisionedAndPersisted(calls[s])
         /\ (calls[s].pc \notin Seeding /\ NewLocation(calls[s])) =>
              (MemDir(calls[s].id) \in DOMAIN stores => stores[MemDir(calls[s].id)] = << >>)

\* create has returned a record with a brand voice that is not the default
\* and a slug that is not its name, for the second tenant of the registry
CreateSeedsWitness ==
  /\ Created
  /\ ret.value[1].brand.voice = "casual"
  /\ ret.value[1].slug # ret.value[1].name
  /\ Len(tenants) = 2
  /\ Len(mems[memories[ret.value[1].id]].entries) = 4


(***************************************************************************)
(* getBrandGuidelines: the learned preferences it lists                    *)
(***************************************************************************)
\* the keys of the entries a text of guidelines lists, in its order
ListedKeys(text) ==
  LET lines == SelectSeq(text, LAMBDA l : l[1] = "-")
  IN  [i \in 1..Len(lines) |-> lines[i][2]]

\* the keys of the entries of the tenant's Memory the brand-manager wrote last
OwnKeys(tenantId) ==
  IF getMemory(tenantId) = None THEN {}
  ELSE { e[1] : e \in SeqRange(MemoryByAgent(mems[getMemory(tenantId)[1]], "brand-manager")) }

\* When the entry of key k was written last: the sets of the tenant's agent
\* came after create wrote its entries, in the order of setLog.
WrittenAt(tenantId, k) ==
  LET entries == mems[getMemory(tenantId)[1]].entries
      sets == IF held.id = tenantId /\ held.mem = getMemory(tenantId)[1]
              THEN { i \in 1..Len(setLog) : setLog[i] = k } ELSE {}
  IN  IF sets = {} THEN MapIndex(entries, k)
      ELSE Len(entries) + (CHOOSE i \in sets : \A j \in sets : j <= i)

\* the guidelines of a known tenant list at most MaxListed entries, all of
\* the brand-manager, and no entry they leave out was written after one they list
ListsMostRecent(tenantId, text) ==
  LET listed == SeqRange(ListedKeys(text))
      own == OwnKeys(tenantId)
  IN  /\ Len(ListedKeys(text)) <= MaxListed
      /\ listed \subseteq own
      /\ own \ listed # {} => Cardinality(listed) = MaxListed
      /\ \A k \in own \ listed : \A j \in listed :
            WrittenAt(tenantId, k) < WrittenAt(tenantId, j)

\* C19: getBrandGuidelines(id) returns the empty text for an unknown id; for a
\* known tenant it lists at most 10 entries of the Memory, all written by the
\* brand-manager, and they are the most recently written ones when the
\* brand-manager has more than 10.
GuidelinesListMostRecent ==
  ret.op = "getBrandGuidelines" =>
    IF ~MapHas(tenants, ret.id) THEN ret.value = << >>
    ELSE ListsMostRecent(ret.id, ret.value)

\* The same where the agent set no key that was in the Memory before: the
\* order of the store is then the order of the writes.
GuidelinesListMostRecentOfNewKeys ==
  /\ ret.op = "getBrandGuidelines"
  /\ \A i \in 1..Len(setLog) : \A j \in 1..Len(setLog) : setLog[i] = setLog[j] => i = j
  /\ Key("brand_voice", << >>) \notin SeqRange(setLog)
  => IF ~MapHas(tenants, ret.id) THEN ret.value = << >>
     ELSE ListsMostRecent(ret.id, ret.value)

\* more than 10 entries of the brand-manager, and the guidelines list 10
GuidelinesListMostRecentWitness ==
  /\ ret.op = "getBrandGuidelines"
  /\ MapHas(tenants, ret.id)
  /\ Cardinality(OwnKeys(ret.id)) > MaxListed
  /\ Len(ListedKeys(ret.value)) = MaxListed
  /\ Key("brand_voice", << >>) \notin SeqRange(setLog)

\* an unknown id gets the empty text
GuidelinesUnknownEmpty ==
  ret.op = "getBrandGuidelines" /\ ~MapHas(tenants, ret.id) => ret.value = << >>


(***************************************************************************)
(* update and the Memory an agent of the tenant holds                      *)
(***************************************************************************)
\* update(id, {platforms}) has returned the record of the tenant whose Memory
\* the agent holds
UpdatedPlatformsOfHeld ==
  Updated /\ Has(ret.input, "platforms") /\ held # NoHeld /\ held.id = ret.id

\* the agent has set an entry through the Memory it holds
HeldSet == ret.op = "set" /\ held # NoHeld /\ setLog # << >>

\* C20: update(id, {platforms}) leaves the Memory of the tenant the instance
\* it was: getMemory(id) after the update gives the reference an agent got
\* before it, and what the agent sets through its reference afterwards is what
\* getMemory(id).get gives.  In HeldSpec only create and update register a
\* Memory, and create is called once.
UpdateKeepsMemoryInstance ==
  /\ UpdatedPlatformsOfHeld => getMemory(ret.id) = Some(held.mem)
  /\ HeldSet /\ getMemory(held.id) # None =>
       MemoryGet(mems[getMemory(held.id)[1]], setLog[Len(setLog)]) = Some(ret.input.value)

\* What the agent sets through its reference reaches the backing location of
\* the tenant, whichever Memory is registered.
HeldSetReachesStore ==
  HeldSet =>
    LET dir == mems[held.mem].dir
        key == setLog[Len(setLog)]
    IN  /\ dir = MemDir(held.id)
        /\ dir \in DOMAIN stores
        /\ MapHas(stores[dir], key)
        /\ MapGet(stores[dir], key).value = ret.input.value

\* Only an update with platforms registers another Memory for a tenant that
\* has one.
MemoryReplacedByPlatformsOnly ==
  [][\A id \in (DOMAIN memories) \cap (DOMAIN memories') :
       memories'[id] # memories[id] =>
         \E s \in InFlight : /\ calls[s].op = "update"
                             /\ calls[s].id = id
                             /\ Has(calls[s].input, "platforms")]_vars


(***************************************************************************)
(* The tenants, the Memories and the Executors of the TenantManager        *)
(***************************************************************************)
\* this.tenants, this.memories and this.executors have the same keys
SameKeys == MapKeys(tenants) = DOMAIN memories /\ DOMAIN memories = DOMAIN executors

\* no call on the TenantManager is in progress
Quiet == phase = "ready" /\ Idle

\* C21: whenever no call on the TenantManager is in progress, for every
\* interleaving of create, update and delete (an update with platforms that
\* overlaps a delete of its id, and a create whose provisioning fails,
\* included), the tenants, the Memories and the Executors have the same
\* keys: no tenant without resources, no resources without a tenant.
ResourceCachesCoherent == Quiet => SameKeys

\* The same for calls that do not overlap and none of which failed.
ResourceCachesCoherentSequential == Quiet /\ ~overlap /\ ~failed => SameKeys

\* The same for calls that overlap, none of which failed.
ResourceCachesCoherentWithoutFailure == Quiet /\ ~failed => SameKeys

\* The same for calls that do not overlap, failures included.
ResourceCachesCoherentWithoutOverlap == Quiet /\ ~overlap => SameKeys


(***************************************************************************)
(* setBrand: the shared keys and the profiles                              *)
(***************************************************************************)
SharedSteps == { "set:voice", "set:tone", "set:audience", "set:social" }

\* brand_voice, brand_tone, brand_audience and social_tone are what setBrand
\* writes for the profile
SharedOf(profile) ==
  \A pc \in SharedSteps : MemoryGet(memory, SharedKey(pc)) = Some(SharedValue(pc, profile))

\* every task so far was a set-brand task, and every one has returned
SetBrandsDone == wrote # << >> /\ Len(wrote) = handled /\ Handling = {}

\* C22: once every one of a set of set-brand tasks, overlapping or not, has
\* completed, brand_voice, brand_tone, brand_audience and social_tone are
\* the fields of one stored profile: the one the task that wrote its profile
\* last has written.
SharedScalarsCoherent ==
  SetBrandsDone =>
    LET last == wrote[Len(wrote)]
    IN  /\ MemoryGet(memory, BrandKey(last.brand)) = Some(last.profile)
        /\ SharedOf(last.profile)

\* The same for one set-brand task.
SharedScalarsCoherentAlone == Len(wrote) = 1 => SharedScalarsCoherent

\* Every shared key has its value from a profile a set-brand task wrote, and
\* the profile written last is the one stored for its brand.
SharedScalarsFromProfiles ==
  SetBrandsDone =>
    /\ MemoryGet(memory, BrandKey(wrote[Len(wrote)].brand)) = Some(wrote[Len(wrote)].profile)
    /\ \A pc \in SharedSteps : \E i \in 1..Len(wrote) :
          MemoryGet(memory, SharedKey(pc)) = Some(SharedValue(pc, wrote[i].profile))


(***************************************************************************)
(* track: the entry metrics:<contentId>                                    *)
(***************************************************************************)
TrackKey(contentId) == Key("metrics:", << contentId >>)

\* two track tasks for one contentId on two platforms, and both have returned
TrackedTwoPlatforms ==
  /\ Len(tracked) = 2
  /\ tracked[1].input.contentId = tracked[2].input.contentId
  /\ tracked[1].input.platform # tracked[2].input.platform
  /\ Handling = {}

\* the entry has the platform of the i-th track task in its platforms, and
\* for it the metrics that task supplied
HasTracked(entry, i) ==
  LET input == tracked[i].input
  IN  /\ input.platform \in SeqRange(entry.platforms)
      /\ MapHas(entry.metrics, input.platform)
      /\ MapGet(entry.metrics, input.platform)
           = MapGet(TrackMerge(None, input, tracked[i].at).metrics, input.platform)

\* C23: when two track tasks for one contentId on different platforms
\* overlap, then after both completed metrics:<contentId> has the metrics of
\* both platforms and both platforms in its platforms.  Stated for every two
\* such tasks, overlapping or not.
NoLostTrack ==
  TrackedTwoPlatforms =>
    LET stored == MemoryGet(memory, TrackKey(tracked[1].input.contentId))
    IN  stored # None /\ \A i \in 1..2 : HasTracked(stored[1], i)

\* Two such tasks that overlapped: the one taken first returned last.
NoLostTrackWitness ==
  /\ TrackedTwoPlatforms
  /\ reply.op = "return"
  /\ reply.task.payload.input = tracked[1].input


\* the track tasks so far that supplied the field f for the platform
SuppliedAt(platform, f) ==
  { i \in 1..Len(tracked) : /\ tracked[i].input.platform = platform
                            /\ Has(Prop(tracked[i].input, "metrics"), f) }

\* the entry has, for every platform and every field of `fields' a track task
\* supplied for it, the value supplied last
LatestSupplied(entry, fields) ==
  \A i \in 1..Len(tracked) :
    LET platform == tracked[i].input.platform
    IN  \A f \in (DOMAIN Prop(tracked[i].input, "metrics")) \cap fields :
          LET last == CHOOSE j \in SuppliedAt(platform, f) :
                        \A k \in SuppliedAt(platform, f) : k <= j
          IN  /\ MapHas(entry.metrics, platform)
              /\ Has(MapGet(entry.metrics, platform), f)
              /\ MapGet(entry.metrics, platform)[f] = tracked[last].input.metrics[f]

\* the platforms of the entry are the platforms of its metrics, each once;
\* its id, title, topic and createdAt are those of the first track task
TrackedShape(entry) ==
  LET first == tracked[1]
  IN  /\ NoDuplicates(entry.platforms)
      /\ SeqRange(entry.platforms) = MapKeys(entry.metrics)
      /\ entry.id = first.input.contentId
      /\ entry.title = OrString(first.input, "title", first.input.contentId)
      /\ entry.topic = OrString(first.input, "topic", "")
      /\ entry.createdAt = first.at

\* the fields of the metrics of a platform, lines 15-21
MetricFields ==
  { "views", "likes", "shares", "comments", "clicks", "impressions", "engagement" }

\* the track tasks so far were for one contentId
TrackedOne ==
  /\ tracked # << >>
  /\ \A i \in 1..Len(tracked) : tracked[i].input.contentId = tracked[1].input.contentId

\* C24: after any sequence of track tasks for a contentId c, the entry
\* metrics:c has platforms without duplicates that are the platforms of its
\* metrics, keeps the id, title, topic and createdAt of the first track task
\* for c, and holds for every platform the value supplied last of every
\* metric field ever supplied for it.
TrackAccumulates ==
  TrackedOne =>
    LET stored == MemoryGet(memory, TrackKey(tracked[1].input.contentId))
    IN  /\ stored # None
        /\ TrackedShape(stored[1])
        /\ LatestSupplied(stored[1], MetricFields)

\* The same for every metric field but engagement, which track computes.
TrackAccumulatesSupplied ==
  TrackedOne =>
    LET stored == MemoryGet(memory, TrackKey(tracked[1].input.contentId))
    IN  /\ stored # None
        /\ TrackedShape(stored[1])
        /\ LatestSupplied(stored[1], MetricFields \ { "engagement" })

\* The same for engagement where the platform has no views.
TrackAccumulatesWithoutViews ==
  TrackedOne /\ (\A i \in 1..Len(tracked) : ~Has(Prop(tracked[i].input, "metrics"), "views")) =>
    TrackAccumulates

====
